---- MODULE Spec2Model ----
(***************************************************************************)
(* task-runner: the bounded-concurrency worker pool, the batch lock, the   *)
(* escalation proposals with the agent registry, and the per-ticket        *)
(* pipeline (runIssue).  Each subsystem has its own specification over the *)
(* shared variable list; a specification leaves the other subsystems'      *)
(* variables at their initial values.                                      *)
(***************************************************************************)
EXTENDS Integers, Sequences, FiniteSets, TLC

VARIABLES
    \* ---- worker pool (src/src/concurrency.ts)
    items,          \* the input list
    concurrency,    \* the requested concurrency N
    throwsAt,       \* the indices (1-based) whose job raises
    index,          \* the shared next-index counter (0-based value, as in the code)
    results,        \* the pre-sized result array
    wstate,         \* per worker: "none" | "running" | "done" | "dead"
    wi,             \* per worker: the index (1-based) it claimed
    poolStatus      \* "init" | "seq" | "par" | "resolved" | "rejected"

VARIABLES
    \* ---- batch lock (src/unnamed/part_002, lock.ts) and drain (part_011)
    lockFile,       \* the lock file: [exists, content], and who wrote it when
    now,            \* Date.now(), in ms since the model's start
    lpc,            \* per drain invocation: where it stands
    released        \* TRUE once some invocation has entered releaseLock

VARIABLES
    \* ---- agent registry (src/src/agents/registry.ts), proposals
    \*      (src/unnamed/part_005, proposals.ts) and the tracker they write to
    regFile,        \* agent-registry.json: role name -> definition
    regCache,       \* cachedRegistry: [loaded, reg]
    proposals,      \* the proposal files, by id (position)
    lastOp,         \* the last proposal operation and how it ended
    opCount,        \* number of proposal operations called so far
    teamLabels,     \* the label names that exist in the tracker team
    tkLabels,       \* per ticket: the labels it carries in the tracker
    tkWrites,       \* number of tracker mutations that succeeded
    badLookup,      \* the last lookup made with an id createProposal did not generate
    regCall         \* the last loadRegistry / addAgentType call: what it validated, how it ended

VARIABLES
    \* ---- the per-ticket pipeline (src/src/runner/run-issue.ts, runIssue)
    run,            \* the run's locals, position and result
    tkState,        \* the ticket's workflow state in the tracker
    env             \* what the collaborators hold: blocking relations, project

VARIABLES
    \* ---- failure analysis (src/src/agents/failure-analysis.ts, analyzeFailure)
    stdout,         \* the failed agent's output, as lines
    stderr,         \* the failed agent's error output, as lines
    analysis        \* what analyzeFailure returned for them

VARIABLES
    \* ---- approve-agent commands (src/unnamed/part_015), one process each
    commands             \* per command process: where it stands in approveProposal / rejectProposal

VARIABLES
    \* ---- the registry module in each of several processes
    cachedRegistry  \* per process: its module-level cachedRegistry, [loaded, reg]

VARIABLES
    \* ---- label arithmetic (src/src/linear/labels.ts, computeLabelDiff)
    labelCall       \* a call of computeLabelDiff: its arguments and what it returned

poolVars == <<items, concurrency, throwsAt, index, results, wstate, wi, poolStatus>>
lockVars == <<lockFile, now, lpc, released>>

propVars == <<regFile, regCache, proposals, lastOp, opCount, teamLabels, tkLabels, tkWrites,
              badLookup, regCall>>

runVars == <<run, tkState, env>>

anaVars == <<stdout, stderr, analysis>>
cmdVars == <<commands>>
storeVars == <<cachedRegistry>>
diffVars == <<labelCall>>
vars == <<poolVars, lockVars, propVars, runVars, anaVars, cmdVars, storeVars, diffVars>>

\* What a step of one subsystem leaves alone: the other subsystems.
PoolFrame == UNCHANGED <<lockVars, propVars, runVars, anaVars, cmdVars, storeVars, diffVars>>
LockFrame == UNCHANGED <<poolVars, propVars, runVars, anaVars, cmdVars, storeVars, diffVars>>
PropFrame == UNCHANGED <<poolVars, lockVars, runVars, anaVars, cmdVars, storeVars, diffVars>>
RunFrame ==
    UNCHANGED <<poolVars, lockVars, lastOp, opCount, teamLabels, badLookup, regCall, anaVars,
                cmdVars, storeVars, diffVars>>
RegFrame ==
    UNCHANGED <<poolVars, lockVars, runVars, proposals, lastOp, opCount, teamLabels, tkLabels,
                tkWrites, badLookup, anaVars, cmdVars, storeVars, diffVars>>
AnaFrame == UNCHANGED <<poolVars, lockVars, propVars, runVars, cmdVars, storeVars, diffVars>>
CmdFrame ==
    UNCHANGED <<poolVars, lockVars, runVars, anaVars, regCache, lastOp, opCount, teamLabels,
                badLookup, regCall, storeVars, diffVars>>

(***************************************************************************)
(* Bounds of the model.                                                    *)
(***************************************************************************)
MaxItems == 3
MaxVal == 3
MaxConc == 3
NumDrains == 2
MaxTicks == 3
MaxProposals == 2
MaxOps == 4
MaxAttempts == 2
MaxLines == 2
MaxErrLines == 1

\* The first of two numbers, whatever the second.
FirstOf(a, b) == a

Min(a, b) == IF a <= b THEN a ELSE b

RECURSIVE SeqsUpTo(_, _)
SeqsUpTo(S, n) ==
    IF n = 0 THEN {<<>>}
    ELSE LET shorter == SeqsUpTo(S, n - 1)
         IN  shorter \cup {Append(s, x) : s \in {t \in shorter : Len(t) = n - 1}, x \in S}

(***************************************************************************)
(* runWithConcurrency                                                      *)
(***************************************************************************)
\* An array slot that was never assigned (`new Array(items.length)`).
Unset == -1

\* The job function: the caller's fn.  Any injective map that is not the
\* identity serves; the repository's test uses `done-${delay}`.
Fn(item) == 10 * item + 1

PoolWorkers == 1 .. MaxConc

\* A completion-order (append) collection: the value goes to the first free slot.
StoreResultAppend(res, i, v) ==
    LET free == {k \in DOMAIN res : res[k] = Unset}
    IN  IF free = {} THEN res
        ELSE [res EXCEPT ![CHOOSE k \in free : \A m \in free : k <= m] = v]

\* results[i] = v : the indexed write into the pre-sized array.
StoreResult(res, i, v) == [res EXCEPT ![i] = v]

PoolInit ==
    /\ items \in SeqsUpTo(1 .. MaxVal, MaxItems)
    /\ concurrency \in 0 .. MaxConc
    /\ throwsAt \in SUBSET (1 .. Len(items))
    /\ index = 0
    /\ results = [k \in 1 .. Len(items) |-> Unset]
    /\ wstate = [w \in PoolWorkers |-> "none"]
    /\ wi = [w \in PoolWorkers |-> 0]
    /\ poolStatus = "init"

PoolIdle ==
    /\ items = <<>>
    /\ concurrency = 0
    /\ throwsAt = {}
    /\ index = 0
    /\ results = <<>>
    /\ wstate = [w \in PoolWorkers |-> "none"]
    /\ wi = [w \in PoolWorkers |-> 0]
    /\ poolStatus = "init"

\* concurrency <= 1: the sequential loop is entered.
PoolCallSequential ==
    /\ poolStatus = "init"
    /\ concurrency <= 1
    /\ poolStatus' = "seq"
    /\ UNCHANGED <<items, concurrency, throwsAt, index, results, wstate, wi>>
    /\ PoolFrame

\* concurrency > 1: min(concurrency, items.length) workers are created; each
\* runs synchronously up to its first await, so worker w claims index w - 1.
PoolCallParallel ==
    /\ poolStatus = "init"
    /\ concurrency > 1
    /\ LET n == Min(concurrency, Len(items))
       IN  /\ wstate' = [w \in PoolWorkers |-> IF w <= n THEN "running" ELSE "none"]
           /\ wi' = [w \in PoolWorkers |-> IF w <= n THEN w ELSE 0]
           /\ index' = n
    /\ poolStatus' = "par"
    /\ UNCHANGED <<items, concurrency, throwsAt, results>>
    /\ PoolFrame

\* for (i...) results[i] = await fn(items[i])
SeqStep ==
    /\ poolStatus = "seq"
    /\ index < Len(items)
    /\ (index + 1) \notin throwsAt
    /\ results' = StoreResult(results, index + 1, Fn(items[index + 1]))
    /\ index' = index + 1
    /\ UNCHANGED <<items, concurrency, throwsAt, wstate, wi, poolStatus>>
    /\ PoolFrame

\* fn raises in the sequential loop: the await rethrows, the call rejects.
SeqRaise ==
    /\ poolStatus = "seq"
    /\ index < Len(items)
    /\ (index + 1) \in throwsAt
    /\ poolStatus' = "rejected"
    /\ UNCHANGED <<items, concurrency, throwsAt, index, results, wstate, wi>>
    /\ PoolFrame

SeqReturn ==
    /\ poolStatus = "seq"
    /\ index >= Len(items)
    /\ poolStatus' = "resolved"
    /\ UNCHANGED <<items, concurrency, throwsAt, index, results, wstate, wi>>
    /\ PoolFrame

\* A worker's awaited job resolves: the slot is written, then the loop
\* condition is re-evaluated and the next index claimed in the same turn.
JobResolves(w) ==
    /\ poolStatus = "par"
    /\ wstate[w] = "running"
    /\ wi[w] \notin throwsAt
    /\ results' = StoreResult(results, wi[w], Fn(items[wi[w]]))
    /\ IF index < Len(items)
       THEN /\ wi' = [wi EXCEPT ![w] = index + 1]
            /\ index' = index + 1
            /\ UNCHANGED wstate
       ELSE /\ wstate' = [wstate EXCEPT ![w] = "done"]
            /\ UNCHANGED <<wi, index>>
    /\ UNCHANGED <<items, concurrency, throwsAt, poolStatus>>
    /\ PoolFrame

\* A worker's awaited job raises: that worker's promise rejects, it claims
\* nothing more and its slot stays unset.
JobRaises(w) ==
    /\ poolStatus = "par"
    /\ wstate[w] = "running"
    /\ wi[w] \in throwsAt
    /\ wstate' = [wstate EXCEPT ![w] = "dead"]
    /\ UNCHANGED <<items, concurrency, throwsAt, index, results, wi, poolStatus>>
    /\ PoolFrame

\* Promise.all(workers) would reject as soon as one worker has rejected.
SettleAll(ws) == IF \E w \in PoolWorkers : ws[w] = "dead" THEN "rejected" ELSE "resolved"

\* Promise.allSettled(workers) fulfils whatever the workers' outcomes are.
SettleAllSettled(ws) == "resolved"

\* await Promise.allSettled(workers); return results
PoolSettle ==
    /\ poolStatus = "par"
    /\ \A w \in PoolWorkers : wstate[w] # "running"
    /\ poolStatus' = SettleAllSettled(wstate)
    /\ UNCHANGED <<items, concurrency, throwsAt, index, results, wstate, wi>>
    /\ PoolFrame

\* ---- drain's own pool (src/unnamed/part_011): the same loop with
\* processIssue as the job; runIssue raises for the tickets of throwsAt.

\* What processIssue returns when runIssue raised: a failure result for the ticket.
CaughtResult(item) == 10 * item

\* A job that lets runIssue's error through.
ProcessIssueNoCatch(item, raises) ==
    [raised |-> raises, value |-> Fn(item)]

\* processIssue: try { return await runIssue(...) } catch { return failure }
ProcessIssue(item, raises) ==
    [raised |-> FALSE, value |-> IF raises THEN CaughtResult(item) ELSE Fn(item)]

\* for (i...) results[i] = await processIssue(issues[i])
BatchSeqStep ==
    /\ poolStatus = "seq"
    /\ index < Len(items)
    /\ LET out == ProcessIssue(items[index + 1], (index + 1) \in throwsAt)
       IN  IF out.raised
           THEN /\ poolStatus' = "rejected"
                /\ UNCHANGED <<index, results>>
           ELSE /\ results' = StoreResult(results, index + 1, out.value)
                /\ index' = index + 1
                /\ UNCHANGED poolStatus
    /\ UNCHANGED <<items, concurrency, throwsAt, wstate, wi>>
    /\ PoolFrame

\* worker: results[i] = await processIssue(issues[i]); next index or exit
BatchJob(w) ==
    /\ poolStatus = "par"
    /\ wstate[w] = "running"
    /\ LET out == ProcessIssue(items[wi[w]], wi[w] \in throwsAt)
       IN  IF out.raised
           THEN /\ wstate' = [wstate EXCEPT ![w] = "dead"]
                /\ UNCHANGED <<wi, index, results>>
           ELSE /\ results' = StoreResult(results, wi[w], out.value)
                /\ IF index < Len(items)
                   THEN /\ wi' = [wi EXCEPT ![w] = index + 1]
                        /\ index' = index + 1
                        /\ UNCHANGED wstate
                   ELSE /\ wstate' = [wstate EXCEPT ![w] = "done"]
                        /\ UNCHANGED <<wi, index>>
    /\ UNCHANGED <<items, concurrency, throwsAt, poolStatus>>
    /\ PoolFrame

BatchNext ==
    \/ PoolCallSequential
    \/ PoolCallParallel
    \/ BatchSeqStep
    \/ SeqReturn
    \/ \E w \in PoolWorkers : BatchJob(w)
    \/ PoolSettle

PoolNext ==
    \/ PoolCallSequential
    \/ PoolCallParallel
    \/ SeqStep
    \/ SeqRaise
    \/ SeqReturn
    \/ \E w \in PoolWorkers : JobResolves(w)
    \/ \E w \in PoolWorkers : JobRaises(w)
    \/ PoolSettle

(***************************************************************************)
(* The batch lock: acquireLock / releaseLock, as drain uses them.  Every   *)
(* file-system call is one step: the invocations are separate processes.   *)
(***************************************************************************)
LOCK_TTL_MS == 6 * 60 * 60 * 1000

\* The model's clock advances in steps of half the TTL.
ClockStepMs == 3 * 60 * 60 * 1000

Drains == 1 .. NumDrains

\* Date.now().toString(): the decimal digits of n.
RECURSIVE NumToString(_)
NumToString(n) == IF n < 10 THEN <<n>> ELSE Append(NumToString(n \div 10), n % 10)

\* parseInt(lockContent, 10)
RECURSIVE ParseInt(_)
ParseInt(digits) ==
    IF Len(digits) = 0 THEN 0
    ELSE 10 * ParseInt(SubSeq(digits, 1, Len(digits) - 1)) + digits[Len(digits)]

NoFile == [exists |-> FALSE, content |-> <<>>, writer |-> 0, writtenAt |-> 0]

\* A lock that never expires.
AlwaysFresh(content, t) == TRUE

\* Date.now() - lockTime < LOCK_TTL_MS : the lock is still held.
LockFresh(content, t) == t - ParseInt(content) < LOCK_TTL_MS

LockInit ==
    /\ lockFile = NoFile
    /\ now = 0
    /\ lpc = [p \in Drains |-> "idle"]
    /\ released = FALSE

LockIdle == LockInit

Tick ==
    /\ now < MaxTicks * ClockStepMs
    /\ now' = now + ClockStepMs
    /\ UNCHANGED <<lockFile, lpc, released>>
    /\ LockFrame

\* drain: if (!acquireLock()) ... ; acquireLock: existsSync(LOCK_PATH)
AcquireExists(p) ==
    /\ lpc[p] = "idle"
    /\ lpc' = [lpc EXCEPT ![p] = IF lockFile.exists THEN "read" ELSE "write"]
    /\ UNCHANGED <<lockFile, now, released>>
    /\ LockFrame

\* readFileSync + parseInt + the TTL comparison, lock still held: return false;
\* drain logs and returns [].
AcquireReadFresh(p) ==
    /\ lpc[p] = "read"
    /\ lockFile.exists
    /\ LockFresh(lockFile.content, now)
    /\ lpc' = [lpc EXCEPT ![p] = "skipped"]
    /\ UNCHANGED <<lockFile, now, released>>
    /\ LockFrame

\* readFileSync + parseInt + the TTL comparison, lock stale: go on to unlink.
AcquireReadStale(p) ==
    /\ lpc[p] = "read"
    /\ lockFile.exists
    /\ ~LockFresh(lockFile.content, now)
    /\ lpc' = [lpc EXCEPT ![p] = "unlink"]
    /\ UNCHANGED <<lockFile, now, released>>
    /\ LockFrame

\* readFileSync of a file that was removed meanwhile raises ENOENT.
AcquireReadMissing(p) ==
    /\ lpc[p] = "read"
    /\ ~lockFile.exists
    /\ lpc' = [lpc EXCEPT ![p] = "raised"]
    /\ UNCHANGED <<lockFile, now, released>>
    /\ LockFrame

\* unlinkSync(LOCK_PATH) of the stale lock; ENOENT if it is gone already.
AcquireUnlink(p) ==
    /\ lpc[p] = "unlink"
    /\ IF lockFile.exists
       THEN /\ lockFile' = NoFile
            /\ lpc' = [lpc EXCEPT ![p] = "write"]
       ELSE /\ lpc' = [lpc EXCEPT ![p] = "raised"]
            /\ UNCHANGED lockFile
    /\ UNCHANGED <<now, released>>
    /\ LockFrame

\* writeFileSync(LOCK_PATH, Date.now().toString()); return true
AcquireWrite(p) ==
    /\ lpc[p] = "write"
    /\ lockFile' = [exists |-> TRUE, content |-> NumToString(now),
                    writer |-> p, writtenAt |-> now]
    /\ lpc' = [lpc EXCEPT ![p] = "holding"]
    /\ UNCHANGED <<now, released>>
    /\ LockFrame

\* drain's finally: releaseLock: existsSync(LOCK_PATH)
ReleaseExists(p) ==
    /\ lpc[p] = "holding"
    /\ lpc' = [lpc EXCEPT ![p] = IF lockFile.exists THEN "rel_unlink" ELSE "done"]
    /\ released' = TRUE
    /\ UNCHANGED <<lockFile, now>>
    /\ LockFrame

\* releaseLock: unlinkSync(LOCK_PATH); ENOENT if it is gone already.
ReleaseUnlink(p) ==
    /\ lpc[p] = "rel_unlink"
    /\ IF lockFile.exists
       THEN /\ lockFile' = NoFile
            /\ lpc' = [lpc EXCEPT ![p] = "done"]
       ELSE /\ lpc' = [lpc EXCEPT ![p] = "raised"]
            /\ UNCHANGED lockFile
    /\ UNCHANGED <<now, released>>
    /\ LockFrame

\* The process of a batch dies (kill, power loss) before drain's finally
\* block runs: its lock file stays.
Crash(p) ==
    /\ lpc[p] = "holding"
    /\ lpc' = [lpc EXCEPT ![p] = "crashed"]
    /\ UNCHANGED <<lockFile, now, released>>
    /\ LockFrame

\* The steps of invocation p's acquireLock call.
AcquireStep(p) ==
    \/ AcquireExists(p)
    \/ AcquireReadFresh(p)
    \/ AcquireReadStale(p)
    \/ AcquireReadMissing(p)
    \/ AcquireUnlink(p)
    \/ AcquireWrite(p)

LockNext ==
    \/ \E p \in Drains : Crash(p)
    \/ Tick
    \/ \E p \in Drains : AcquireExists(p)
    \/ \E p \in Drains : AcquireReadFresh(p)
    \/ \E p \in Drains : AcquireReadStale(p)
    \/ \E p \in Drains : AcquireReadMissing(p)
    \/ \E p \in Drains : AcquireUnlink(p)
    \/ \E p \in Drains : AcquireWrite(p)
    \/ \E p \in Drains : ReleaseExists(p)
    \/ \E p \in Drains : ReleaseUnlink(p)

(***************************************************************************)
(* The agent registry.  A tool string is a sequence of tokens, so that     *)
(* startsWith is the prefix relation on sequences; a role name is a        *)
(* sequence of tokens too, so that names can be derived from names.        *)
(***************************************************************************)
FORBIDDEN_PREFIXES == <<
    <<"Bash(", "*)">>,
    <<"Bash(", "sudo">>,
    <<"Bash(", "git push">>,
    <<"Bash(", "rm -rf">>,
    <<"Bash(", "curl">>,
    <<"Bash(", "wget">> >>

ToolRead == <<"Read">>
ToolEdit == <<"Edit">>
ToolNpmTest == <<"Bash(", "npm test", ":*)">>
ToolNpmRun == <<"Bash(", "npm run build", ":*)">>
ToolSudoApt == <<"Bash(", "sudo", " apt install", ":*)">>

\* tool.startsWith(prefix)
StartsWith(tool, prefix) ==
    /\ Len(prefix) <= Len(tool)
    /\ SubSeq(tool, 1, Len(prefix)) = prefix

\* tool === prefix || tool.startsWith(prefix), for some forbidden prefix
IsForbiddenExact(tool) ==
    \E k \in 1 .. Len(FORBIDDEN_PREFIXES) : tool = FORBIDDEN_PREFIXES[k]

IsForbidden(tool) ==
    \E k \in 1 .. Len(FORBIDDEN_PREFIXES) :
        tool = FORBIDDEN_PREFIXES[k] \/ StartsWith(tool, FORBIDDEN_PREFIXES[k])

\* [...new Set(list)] : the first occurrences, in order.
RECURSIVE Dedup(_)
Dedup(list) ==
    IF Len(list) = 0 THEN <<>>
    ELSE LET front == Dedup(SubSeq(list, 1, Len(list) - 1))
             last == list[Len(list)]
         IN  IF \E k \in 1 .. Len(front) : front[k] = last THEN front
             ELSE Append(front, last)

\* "extends" absent
NoParent == <<>>

\* `key in registry`: the registry object's own keys and the keys every
\* object inherits from Object.prototype.
ObjectPrototypeKeys == {<<"constructor">>, <<"toString">>}

KeyIn(key, reg) == key \in DOMAIN reg \/ key \in ObjectPrototypeKeys

WorkerRole == <<"worker">>

RoleDef(parent, tools, turns, budget, createdBy) ==
    [extends |-> parent, tools |-> tools, maxTurns |-> turns,
     maxBudgetUsd |-> budget, createdBy |-> createdBy]

\* A validation of each role's own tools only.
ValidateOwnTools(reg) ==
    \A name \in DOMAIN reg :
        \A k \in 1 .. Len(reg[name].tools) : ~IsForbidden(reg[name].tools[k])

\* validateRegistry: TRUE when it returns, FALSE when it throws.
ValidateRegistry(reg) ==
    \A name \in DOMAIN reg :
        LET def == reg[name]
            toolsToCheck ==
                IF def.extends # NoParent /\ KeyIn(def.extends, reg)
                THEN Dedup(reg[def.extends].tools \o def.tools)
                ELSE def.tools
        IN  /\ \A k \in 1 .. Len(toolsToCheck) : ~IsForbidden(toolsToCheck[k])
            /\ def.extends # NoParent => KeyIn(def.extends, reg)
            /\ def.extends # NoParent => reg[def.extends].extends = NoParent

\* A resolution that takes the role's own tools only.
ResolveOwnOnly(name, reg) ==
    [name |-> name, tools |-> reg[name].tools,
     maxTurns |-> reg[name].maxTurns, maxBudgetUsd |-> reg[name].maxBudgetUsd]

\* resolveAgentType, for a name in the registry (it throws otherwise).
ResolveAgentType(name, reg) ==
    LET def == reg[name]
    IN  [name |-> name,
         tools |-> IF def.extends # NoParent
                   THEN Dedup(reg[def.extends].tools \o def.tools)
                   ELSE def.tools,
         maxTurns |-> def.maxTurns,
         maxBudgetUsd |-> def.maxBudgetUsd]

NotLoaded == [loaded |-> FALSE, reg |-> <<>>]

\* loadRegistry: the cache if set, else the file (validated).
LoadThrows(cache, file) == ~cache.loaded /\ ~ValidateRegistry(file)
LoadedRegistry(cache, file) == IF cache.loaded THEN cache.reg ELSE file

\* {...registry, [name]: definition}
\* An update that drops the new role.
KeepRegistry(reg, name, def) == reg

\* { ...registry, [name]: definition }
WithRole(reg, name, def) ==
    [n \in DOMAIN reg \cup {name} |-> IF n = name THEN def ELSE reg[n]]

\* An addAgentType that throws on an invalid registry only.
AddThrowsIfInvalid(reg, name, def) == ~ValidateRegistry(WithRole(reg, name, def))

\* addAgentType throws: the name exists, or the updated registry is invalid.
AddThrows(reg, name, def) ==
    \/ KeyIn(name, reg)
    \/ ~ValidateRegistry(WithRole(reg, name, def))

\* The last registry call: the registry it validated and how it ended.
RegCall(op, candidate, result) == [op |-> op, candidate |-> candidate, result |-> result]

\* An addAgentType(name, definition) call and how it ended.
AddCall(name, def, candidate, result) ==
    [op |-> "add", candidate |-> candidate, result |-> result, name |-> name, def |-> def]
NoCall == RegCall("none", <<>>, "ok")

\* The registry file as shipped: a base worker and a read-only reviewer.
BaseRegistry ==
    [n \in {WorkerRole, <<"reviewer">>} |->
        IF n = WorkerRole
        THEN RoleDef(NoParent, <<ToolRead, ToolEdit, ToolNpmTest>>, 50, 5, "human")
        ELSE RoleDef(NoParent, <<ToolRead>>, 20, 2, "human")]

(***************************************************************************)
(* The tracker, as far as the proposals touch it.                          *)
(***************************************************************************)
Tickets == {"JOS-1", "JOS-2"}

\* issue.identifier.toLowerCase()
ToLowerCase(t) == IF t = "JOS-1" THEN "jos-1" ELSE "jos-2"

AgentReadyLabel == <<"agent-ready">>
NeedsApprovalLabel == <<"needs-human-approval">>
AgentTypeLabel(role) == <<"agent:">> \o role

(***************************************************************************)
(* Proposals: createProposal, approveProposal, rejectProposal.             *)
(***************************************************************************)
ProposalIds == 1 .. MaxProposals

\* `${baseAgentType}-${issue.identifier.toLowerCase()}`
ProposedName(base, t) == base \o <<"-", ToLowerCase(t)>>

\* What a failure analysis may suggest: nothing, a build command, a sudo command.
SuggestedChoices == {<<>>, <<ToolNpmRun>>, <<ToolSudoApt>>, <<ToolNpmTest, ToolNpmRun>>}

NewProposal(t, base, suggested, reg) ==
    LET baseResolved == ResolveAgentType(base, reg)
    IN  [issueIdentifier |-> t,
         baseAgentType |-> base,
         proposedAgentType |-> ProposedName(base, t),
         proposedTools |-> Dedup(baseResolved.tools \o suggested),
         proposedMaxBudgetUsd |-> baseResolved.maxBudgetUsd,
         proposedMaxTurns |-> baseResolved.maxTurns,
         status |-> "pending",
         rejectionReason |-> ""]

\* createProposal's record write: a file under a fresh random id.
ProposalsAfterCreate(store, t, base, suggested, reg) ==
    Append(store, NewProposal(t, base, suggested, reg))

\* createProposal's label swap: remove agent-ready, add needs-human-approval
\* (when the team has that label); labels unknown to the team are dropped
\* by the name -> id mapping.
LabelsAfterCreate(labels, team) ==
    ((labels \cap team) \ {AgentReadyLabel}) \cup ({NeedsApprovalLabel} \cap team)

\* approveProposal's label swap.
LabelsAfterApprove(labels, team, role) ==
    ((labels \cap team) \ {NeedsApprovalLabel})
        \cup ({AgentReadyLabel} \cap team) \cup ({AgentTypeLabel(role)} \cap team)

\* A definition with the proposal's tools and caps whose audit entry names
\* no proposal.
AnonymousDef(p, id) ==
    RoleDef(NoParent, p.proposedTools, p.proposedMaxTurns, p.proposedMaxBudgetUsd,
            <<"proposal:", 0>>)

\* approveProposal: the definition handed to addAgentType.
ApprovedDef(p, id) ==
    RoleDef(NoParent, p.proposedTools, p.proposedMaxTurns, p.proposedMaxBudgetUsd,
            <<"proposal:", id>>)

\* proposal.status !== "pending" is what makes approve and reject throw.
AlwaysPending(p) == TRUE

IsPending(p) == p.status = "pending"

Op(op, id, result) == [op |-> op, id |-> id, result |-> result, tracker |-> "none"]

\* An operation that got as far as its tracker calls (label swap, comment).
TrackerOp(op, id, result, trackerOk) ==
    [op |-> op, id |-> id, result |-> result,
     tracker |-> IF trackerOk THEN "ok" ELSE "failed"]

RevertOnTrackerFailure(written, before, trackerOk) ==
    IF trackerOk THEN written ELSE before

\* The proposal records on disk when the operation returns: writeFileSync
\* comes before the try block of the tracker calls, and the catch only logs.
RecordsAfter(written, before, trackerOk) == written

\* Paths are sequences of segments; the extension is the last segment.
PROPOSALS_DIR == <<"agents", "proposals">>
REGISTRY_PATH == <<"agents", "agent-registry", ".json">>

\* path.resolve(dir, segments): ".." steps up, any other segment steps down.
RECURSIVE Resolve(_, _)
Resolve(dir, segs) ==
    IF segs = <<>> THEN dir
    ELSE IF Head(segs) = ".."
         THEN Resolve(SubSeq(dir, 1, Len(dir) - 1), Tail(segs))
         ELSE Resolve(Append(dir, Head(segs)), Tail(segs))

\* proposalPath(id) == resolve(PROPOSALS_DIR, `${id}.json`)
ProposalPath(id) == Append(Resolve(PROPOSALS_DIR, id), ".json")

\* Ids that randomUUID() never returns: a relative path and a plain word.
ForeignIds == {<<"..", "agent-registry">>, <<"nope">>}

\* existsSync(path) for a path built from such an id: the proposals
\* directory holds generated names only; next to it lies the registry file.
ExistsSync(path) == path = REGISTRY_PATH

NoLookup ==
    [op |-> "none", id |-> <<>>, path |-> <<>>, statted |-> FALSE, read |-> FALSE,
     result |-> "none", calls |-> 0]

\* getProposal(id), and approveProposal(id) / rejectProposal(id) up to their
\* status check, for an id of ForeignIds: the path is built, existsSync looks
\* at it, a missing file throws; an existing file is read and parsed, get
\* returns it, approve and reject throw as its status is not "pending".
LookupForeign(op, id) ==
    LET path == ProposalPath(id)
    IN  [op |-> op, id |-> id, path |-> path, statted |-> TRUE,
         read |-> ExistsSync(path),
         result |-> IF ExistsSync(path) /\ op = "get" THEN "ok" ELSE "error",
         calls |-> 0]

PropInit ==
    /\ regFile = BaseRegistry
    /\ regCache = NotLoaded
    /\ proposals = <<>>
    /\ lastOp = Op("none", 0, "ok")
    /\ opCount = 0
    /\ teamLabels \in {{AgentReadyLabel, NeedsApprovalLabel},
                       {AgentReadyLabel, NeedsApprovalLabel, AgentTypeLabel(ProposedName(WorkerRole, "JOS-1"))}}
    /\ tkLabels = [t \in Tickets |-> {AgentReadyLabel}]
    /\ tkWrites = 0
    /\ badLookup = NoLookup
    /\ regCall = NoCall

PropIdle ==
    /\ regFile = BaseRegistry
    /\ regCache = NotLoaded
    /\ proposals = <<>>
    /\ lastOp = Op("none", 0, "ok")
    /\ opCount = 0
    /\ teamLabels = {AgentReadyLabel, NeedsApprovalLabel}
    /\ tkLabels = [t \in Tickets |-> {AgentReadyLabel}]
    /\ tkWrites = 0
    /\ badLookup = NoLookup
    /\ regCall = NoCall

\* createProposal(issue, baseAgentType, failureAnalysis): the registry is
\* loaded, the record written, then labels and comment are best-effort.
CreateProposal(t, base, suggested, trackerOk) ==
    /\ opCount + badLookup.calls < MaxOps
    /\ Len(proposals) < MaxProposals
    /\ ~LoadThrows(regCache, regFile)
    /\ base \in DOMAIN LoadedRegistry(regCache, regFile)
    /\ LET reg == LoadedRegistry(regCache, regFile)
       IN  /\ regCache' = [loaded |-> TRUE, reg |-> reg]
           /\ proposals' = RecordsAfter(ProposalsAfterCreate(proposals, t, base, suggested, reg),
                                        proposals, trackerOk)
    /\ lastOp' = TrackerOp("create", Len(proposals) + 1, "ok", trackerOk)
    /\ opCount' = opCount + 1
    /\ IF trackerOk
       THEN /\ tkLabels' = [tkLabels EXCEPT ![t] = LabelsAfterCreate(tkLabels[t], teamLabels)]
            /\ tkWrites' = tkWrites + 2
       ELSE UNCHANGED <<tkLabels, tkWrites>>
    /\ UNCHANGED <<regFile, teamLabels>>
    /\ UNCHANGED <<badLookup, regCall>>
    /\ PropFrame

\* approveProposal / rejectProposal for an id with no record: getProposal throws.
ResolveMissing(op, id) ==
    /\ opCount + badLookup.calls < MaxOps
    /\ id \notin 1 .. Len(proposals)
    /\ lastOp' = Op(op, id, "error")
    /\ opCount' = opCount + 1
    /\ UNCHANGED <<regFile, regCache, proposals, teamLabels, tkLabels, tkWrites>>
    /\ UNCHANGED <<badLookup, regCall>>
    /\ PropFrame

\* approveProposal / rejectProposal throw: the proposal is not pending.
ResolveNotPending(op, id) ==
    /\ opCount + badLookup.calls < MaxOps
    /\ id \in 1 .. Len(proposals)
    /\ ~IsPending(proposals[id])
    /\ lastOp' = Op(op, id, "error")
    /\ opCount' = opCount + 1
    /\ UNCHANGED <<regFile, regCache, proposals, teamLabels, tkLabels, tkWrites>>
    /\ UNCHANGED <<badLookup, regCall>>
    /\ PropFrame

\* approveProposal, addAgentType throws (or loadRegistry does): nothing is written.
ApproveAddThrows(id) ==
    /\ opCount + badLookup.calls < MaxOps
    /\ id \in 1 .. Len(proposals)
    /\ IsPending(proposals[id])
    /\ LET p == proposals[id]
           reg == LoadedRegistry(regCache, regFile)
           def == ApprovedDef(p, id)
       IN  /\ LoadThrows(regCache, regFile) \/ AddThrows(reg, p.proposedAgentType, def)
           /\ regCache' = IF LoadThrows(regCache, regFile) THEN regCache
                          ELSE [loaded |-> TRUE, reg |-> reg]
    /\ lastOp' = Op("approve", id, "error")
    /\ opCount' = opCount + 1
    /\ UNCHANGED <<regFile, proposals, teamLabels, tkLabels, tkWrites>>
    /\ UNCHANGED <<badLookup, regCall>>
    /\ PropFrame

\* approveProposal succeeds: the role is added (file and cache), the record
\* is rewritten as approved, then labels and comment are best-effort.
ApproveProposal(id, trackerOk) ==
    /\ opCount + badLookup.calls < MaxOps
    /\ id \in 1 .. Len(proposals)
    /\ IsPending(proposals[id])
    /\ ~LoadThrows(regCache, regFile)
    /\ LET p == proposals[id]
           reg == LoadedRegistry(regCache, regFile)
           def == ApprovedDef(p, id)
           t == p.issueIdentifier
       IN  /\ ~AddThrows(reg, p.proposedAgentType, def)
           /\ regFile' = WithRole(reg, p.proposedAgentType, def)
           /\ regCache' = [loaded |-> TRUE, reg |-> WithRole(reg, p.proposedAgentType, def)]
           /\ proposals' = RecordsAfter([proposals EXCEPT ![id].status = "approved"],
                                        proposals, trackerOk)
           /\ IF trackerOk
              THEN /\ tkLabels' = [tkLabels EXCEPT
                          ![t] = LabelsAfterApprove(tkLabels[t], teamLabels, p.proposedAgentType)]
                   /\ tkWrites' = tkWrites + 2
              ELSE UNCHANGED <<tkLabels, tkWrites>>
    /\ lastOp' = TrackerOp("approve", id, "ok", trackerOk)
    /\ opCount' = opCount + 1
    /\ UNCHANGED teamLabels
    /\ UNCHANGED <<badLookup, regCall>>
    /\ PropFrame

\* rejectProposal succeeds: the record is rewritten as rejected with the
\* reason, then the comment is best-effort.
RejectProposal(id, reason, trackerOk) ==
    /\ opCount + badLookup.calls < MaxOps
    /\ id \in 1 .. Len(proposals)
    /\ IsPending(proposals[id])
    /\ proposals' = RecordsAfter([proposals EXCEPT ![id].status = "rejected",
                                                   ![id].rejectionReason = reason],
                                 proposals, trackerOk)
    /\ tkWrites' = IF trackerOk THEN tkWrites + 1 ELSE tkWrites
    /\ lastOp' = TrackerOp("reject", id, "ok", trackerOk)
    /\ opCount' = opCount + 1
    /\ UNCHANGED <<regFile, regCache, teamLabels, tkLabels>>
    /\ UNCHANGED <<badLookup, regCall>>
    /\ PropFrame

\* getProposal / approveProposal / rejectProposal called with an id that
\* createProposal did not generate.
ForeignLookup(op, id) ==
    /\ opCount + badLookup.calls < MaxOps
    /\ badLookup' = [LookupForeign(op, id) EXCEPT !.calls = badLookup.calls + 1]
    /\ UNCHANGED <<regFile, regCache, proposals, lastOp, opCount, teamLabels, tkLabels, tkWrites,
                   regCall>>
    /\ PropFrame

\* ---- approve-agent <id> [--reject]: each invocation is a process of its
\* own, so approveProposal and rejectProposal of two invocations interleave
\* at their file reads and writes.
MaxCommands == 2
Commands == 1 .. MaxCommands

NoCommand == [pc |-> "idle", op |-> "none", id |-> 0, status |-> "none"]

CmdIdle == commands = [c \in Commands |-> NoCommand]

\* getProposal reads the record; its status is pending.
CmdGetPending(c, op, id) ==
    /\ commands[c].pc = "idle"
    /\ id \in 1 .. Len(proposals)
    /\ IsPending(proposals[id])
    /\ commands' = [commands EXCEPT ![c] = [pc |-> "checked", op |-> op, id |-> id,
                                  status |-> proposals[id].status]]
    /\ UNCHANGED <<regFile, proposals, tkLabels, tkWrites>>
    /\ CmdFrame

\* getProposal reads the record; it is not pending: the command throws.
CmdGetThrows(c, op, id) ==
    /\ commands[c].pc = "idle"
    /\ id \in 1 .. Len(proposals)
    /\ ~IsPending(proposals[id])
    /\ commands' = [commands EXCEPT ![c] = [pc |-> "failed", op |-> op, id |-> id,
                                  status |-> proposals[id].status]]
    /\ UNCHANGED <<regFile, proposals, tkLabels, tkWrites>>
    /\ CmdFrame

\* approveProposal: addAgentType in a process whose cache is empty reads the
\* registry file and writes it with the new role.
CmdAddAgentType(c) ==
    /\ commands[c].pc = "checked"
    /\ commands[c].op = "approve"
    /\ LET id == commands[c].id
           p == proposals[id]
           def == ApprovedDef(p, id)
       IN  /\ ~LoadThrows(NotLoaded, regFile)
           /\ ~AddThrows(regFile, p.proposedAgentType, def)
           /\ regFile' = WithRole(regFile, p.proposedAgentType, def)
    /\ commands' = [commands EXCEPT ![c].pc = "registered"]
    /\ UNCHANGED <<proposals, tkLabels, tkWrites>>
    /\ CmdFrame

\* approveProposal: addAgentType throws, the command ends.
CmdAddAgentTypeThrows(c) ==
    /\ commands[c].pc = "checked"
    /\ commands[c].op = "approve"
    /\ LET id == commands[c].id
           p == proposals[id]
           def == ApprovedDef(p, id)
       IN  LoadThrows(NotLoaded, regFile) \/ AddThrows(regFile, p.proposedAgentType, def)
    /\ commands' = [commands EXCEPT ![c].pc = "failed"]
    /\ UNCHANGED <<regFile, proposals, tkLabels, tkWrites>>
    /\ CmdFrame

\* proposal.status = ...; writeFileSync(proposalPath(id), ...) with the record
\* the command read, then the best-effort tracker writes.
CmdWriteStatus(c, trackerOk) ==
    /\ \/ commands[c].pc = "registered"
       \/ commands[c].pc = "checked" /\ commands[c].op = "reject"
    /\ LET id == commands[c].id
           p == proposals[id]
           t == p.issueIdentifier
           status == IF commands[c].op = "approve" THEN "approved" ELSE "rejected"
       IN  /\ proposals' = [proposals EXCEPT ![id].status = status]
           /\ commands' = [commands EXCEPT ![c].pc = "done", ![c].status = status]
           /\ IF trackerOk /\ commands[c].op = "approve"
              THEN /\ tkLabels' = [tkLabels EXCEPT
                          ![t] = LabelsAfterApprove(tkLabels[t], teamLabels, p.proposedAgentType)]
                   /\ tkWrites' = tkWrites + 2
              ELSE /\ tkLabels' = tkLabels
                   /\ tkWrites' = IF trackerOk THEN tkWrites + 1 ELSE tkWrites
    /\ UNCHANGED regFile
    /\ CmdFrame

CmdNext ==
    \/ \E t \in Tickets : CreateProposal(t, WorkerRole, <<ToolNpmRun>>, TRUE)
    \/ \E c \in Commands, op \in {"approve", "reject"}, id \in ProposalIds :
          CmdGetPending(c, op, id) \/ CmdGetThrows(c, op, id)
    \/ \E c \in Commands : CmdAddAgentType(c) \/ CmdAddAgentTypeThrows(c)
    \/ \E c \in Commands, trackerOk \in BOOLEAN : CmdWriteStatus(c, trackerOk)

\* ---- addAgentType in several processes, each with its own cachedRegistry
StoreIdle == cachedRegistry = [c \in Commands |-> NotLoaded]

RoleOfProcess(c) == <<"role", c>>

StoreFrame ==
    UNCHANGED <<poolVars, lockVars, runVars, anaVars, cmdVars, regCache, proposals, lastOp,
                opCount, teamLabels, tkLabels, tkWrites, badLookup, diffVars>>

\* loadRegistry() in process c
StoreLoad(c) ==
    /\ ~LoadThrows(cachedRegistry[c], regFile)
    /\ cachedRegistry' = [cachedRegistry EXCEPT
          ![c] = [loaded |-> TRUE, reg |-> LoadedRegistry(cachedRegistry[c], regFile)]]
    /\ regCall' = RegCall("load", LoadedRegistry(cachedRegistry[c], regFile), "ok")
    /\ UNCHANGED regFile
    /\ StoreFrame

\* addAgentType(name, def) in process c returns: file and own cache are written.
StoreAdd(c, name, def) ==
    /\ ~LoadThrows(cachedRegistry[c], regFile)
    /\ LET reg == LoadedRegistry(cachedRegistry[c], regFile)
       IN  /\ ~AddThrows(reg, name, def)
           /\ regFile' = WithRole(reg, name, def)
           /\ cachedRegistry' = [cachedRegistry EXCEPT
                 ![c] = [loaded |-> TRUE, reg |-> WithRole(reg, name, def)]]
           /\ regCall' = AddCall(name, def, WithRole(reg, name, def), "ok")
    /\ StoreFrame

\* addAgentType(name, def) in process c throws: nothing is written.
StoreAddThrows(c, name, def) ==
    /\ ~LoadThrows(cachedRegistry[c], regFile)
    /\ LET reg == LoadedRegistry(cachedRegistry[c], regFile)
       IN  /\ AddThrows(reg, name, def)
           /\ cachedRegistry' = [cachedRegistry EXCEPT ![c] = [loaded |-> TRUE, reg |-> reg]]
           /\ regCall' = AddCall(name, def, WithRole(reg, name, def), "error")
    /\ UNCHANGED regFile
    /\ StoreFrame

StoreDefs == {RoleDef(NoParent, <<t>>, 50, 5, "human") : t \in {ToolRead, ToolNpmTest, ToolSudoApt}}

StoreNext ==
    \/ \E c \in Commands : StoreLoad(c)
    \/ \E c \in Commands, def \in StoreDefs : StoreAdd(c, RoleOfProcess(c), def)
    \/ \E c \in Commands, def \in StoreDefs : StoreAddThrows(c, RoleOfProcess(c), def)

PropNext ==
    \/ \E t \in Tickets, base \in {WorkerRole, ProposedName(WorkerRole, "JOS-1")},
          suggested \in SuggestedChoices, trackerOk \in BOOLEAN :
            CreateProposal(t, base, suggested, trackerOk)
    \/ \E op \in {"approve", "reject"}, id \in ProposalIds : ResolveMissing(op, id)
    \/ \E op \in {"approve", "reject"}, id \in ProposalIds : ResolveNotPending(op, id)
    \/ \E id \in ProposalIds : ApproveAddThrows(id)
    \/ \E id \in ProposalIds, trackerOk \in BOOLEAN : ApproveProposal(id, trackerOk)
    \/ \E id \in ProposalIds, trackerOk \in BOOLEAN : RejectProposal(id, "not needed", trackerOk)
    \/ \E op \in {"get", "approve", "reject"}, id \in ForeignIds : ForeignLookup(op, id)

(***************************************************************************)
(* loadRegistry and addAgentType on their own, over registry files of all  *)
(* shapes: a worker role with one tool, and optionally a child role that   *)
(* extends it with one more tool.                                          *)
(***************************************************************************)
ToolSudo == <<"Bash(", "sudo">>
ToolAny == <<"Bash(", "*)">>
ChildRole == <<"child">>
ExtraRole == <<"extra">>

RegTools == {ToolRead, ToolNpmTest, ToolSudoApt, ToolSudo, ToolAny}

RegistryFiles ==
    {[n \in {WorkerRole} |-> RoleDef(NoParent, <<t>>, 50, 5, "human")] : t \in RegTools}
    \cup {[n \in {WorkerRole, ChildRole} |->
              IF n = WorkerRole THEN RoleDef(NoParent, <<t>>, 50, 5, "human")
              ELSE RoleDef(WorkerRole, <<u>>, 50, 5, "human")] : t \in RegTools, u \in RegTools}

AddedDefs ==
    {RoleDef(parent, <<t>>, 50, 5, "human") :
        parent \in {NoParent, WorkerRole, ChildRole}, t \in RegTools}

RegInit ==
    /\ regFile \in RegistryFiles
    /\ regCache = NotLoaded
    /\ regCall = NoCall
    /\ proposals = <<>>
    /\ lastOp = Op("none", 0, "ok")
    /\ opCount = 0
    /\ teamLabels = {AgentReadyLabel, NeedsApprovalLabel}
    /\ tkLabels = [t \in Tickets |-> {AgentReadyLabel}]
    /\ tkWrites = 0
    /\ badLookup = NoLookup

\* loadRegistry returns: the cache, or the file after validateRegistry.
RegLoadOk ==
    /\ ~LoadThrows(regCache, regFile)
    /\ LET reg == LoadedRegistry(regCache, regFile)
       IN  /\ regCache' = [loaded |-> TRUE, reg |-> reg]
           /\ regCall' = RegCall("load", reg, "ok")
    /\ UNCHANGED regFile
    /\ RegFrame

\* loadRegistry throws: validateRegistry rejects the file.
RegLoadThrows ==
    /\ LoadThrows(regCache, regFile)
    /\ regCall' = RegCall("load", regFile, "error")
    /\ UNCHANGED <<regFile, regCache>>
    /\ RegFrame

\* addAgentType(name, definition) writes the file and the cache.
RegAddOk(name, def) ==
    /\ ~LoadThrows(regCache, regFile)
    /\ LET reg == LoadedRegistry(regCache, regFile)
       IN  /\ ~AddThrows(reg, name, def)
           /\ regFile' = WithRole(reg, name, def)
           /\ regCache' = [loaded |-> TRUE, reg |-> WithRole(reg, name, def)]
           /\ regCall' = AddCall(name, def, WithRole(reg, name, def), "ok")
    /\ RegFrame

\* addAgentType throws in loadRegistry: nothing changes.
RegAddLoadThrows(name, def) ==
    /\ LoadThrows(regCache, regFile)
    /\ regCall' = AddCall(name, def, regFile, "error")
    /\ UNCHANGED <<regFile, regCache>>
    /\ RegFrame

\* addAgentType throws after loadRegistry: the name exists, or
\* validateRegistry rejects the updated registry; nothing is written.
RegAddThrows(name, def) ==
    /\ ~LoadThrows(regCache, regFile)
    /\ LET reg == LoadedRegistry(regCache, regFile)
       IN  /\ AddThrows(reg, name, def)
           /\ regCache' = [loaded |-> TRUE, reg |-> reg]
           /\ regCall' = AddCall(name, def, WithRole(reg, name, def), "error")
    /\ UNCHANGED regFile
    /\ RegFrame

RequestedTurns == {20, 50, 80}
RequestedBudgets == {2, 5, 9}

\* The caps as the caller requested them.
TakeRequested(requested, configured) == requested

\* Math.min(opts.maxTurns, resolved.maxTurns), and the same for the budget
CapTo(requested, configured) == Min(requested, configured)

\* resolveSpawnTools(opts) for opts.agentType = name
ResolveSpawnTools(name, turns, budget, reg) ==
    LET resolved == ResolveAgentType(name, reg)
    IN  [tools |-> resolved.tools,
         maxTurns |-> CapTo(turns, resolved.maxTurns),
         maxBudgetUsd |-> CapTo(budget, resolved.maxBudgetUsd)]

\* spawnAgent up to the agent's start: loadRegistry, resolveAgentType, caps.
RegSpawnTools(name, turns, budget) ==
    /\ ~LoadThrows(regCache, regFile)
    /\ LET reg == LoadedRegistry(regCache, regFile)
       IN  /\ name \in DOMAIN reg
           /\ regCache' = [loaded |-> TRUE, reg |-> reg]
           /\ regCall' = [op |-> "spawn", candidate |-> reg, result |-> "ok", name |-> name,
                          requested |-> [maxTurns |-> turns, maxBudgetUsd |-> budget],
                          effective |-> ResolveSpawnTools(name, turns, budget, reg)]
    /\ UNCHANGED regFile
    /\ RegFrame

\* spawnAgent throws before the agent starts: loadRegistry throws, or the
\* type is not in the registry.
RegSpawnToolsThrows(name) ==
    /\ LoadThrows(regCache, regFile)
       \/ name \notin DOMAIN LoadedRegistry(regCache, regFile)
    /\ regCache' = IF LoadThrows(regCache, regFile) THEN regCache
                   ELSE [loaded |-> TRUE, reg |-> LoadedRegistry(regCache, regFile)]
    /\ regCall' = RegCall("spawn", IF LoadThrows(regCache, regFile) THEN regFile
                                    ELSE LoadedRegistry(regCache, regFile), "error")
    /\ UNCHANGED regFile
    /\ RegFrame

SpawnNames == {WorkerRole, ChildRole, ExtraRole, <<"ghost">>}

RegNext ==
    \/ \E name \in SpawnNames, turns \in RequestedTurns, budget \in RequestedBudgets :
          RegSpawnTools(name, turns, budget)
    \/ \E name \in SpawnNames : RegSpawnToolsThrows(name)
    \/ RegLoadOk
    \/ RegLoadThrows
    \/ \E name \in {ExtraRole, WorkerRole}, def \in AddedDefs : RegAddOk(name, def)
    \/ \E name \in {ExtraRole, WorkerRole}, def \in AddedDefs : RegAddLoadThrows(name, def)
    \/ \E name \in {ExtraRole, WorkerRole}, def \in AddedDefs : RegAddThrows(name, def)

(***************************************************************************)
(* analyzeFailure.  A transcript is a sequence of lines; a line is a       *)
(* sequence of words, a word a sequence of lower-cased pieces, so that a   *)
(* raw substring search (a piece inside a word) and a whole-word match (the *)
(* word is the piece) differ.  A line of a structured denial also carries  *)
(* the rule of PATTERNS that matches it and the capability it names.       *)
(***************************************************************************)
NoCap == <<>>

TextLine(words) == [rule |-> 0, cap |-> NoCap, words |-> words]

\* tool "<cap>" is not allowed                    (PATTERNS[0])
DenyTool(cap) ==
    [rule |-> 1, cap |-> cap,
     words |-> <<<<"tool">>, <<"is">>, <<"not">>, <<"allowed">>>>]

\* Bash(<commands>) is not allowed                     (PATTERNS[2])
DenyBash(cmd) ==
    [rule |-> 3, cap |-> <<"Bash(", cmd, ")">>,
     words |-> <<<<"bash">>, <<"is">>, <<"not">>, <<"allowed">>>>]

LinePermissionDenied == TextLine(<<<<"permission">>, <<"denied">>>>)
LineBudget == TextLine(<<<<"max">>, <<"budget">>, <<"exceeded">>>>)
LineTimedOut == TextLine(<<<<"process">>, <<"timed">>, <<"out">>>>)
\* "agentTimeoutMs: 600000", as a run prints its configuration
LineConfigField == TextLine(<<<<"agent", "timeout", "ms">>, <<"600000">>>>)
LineTestsFailed == TextLine(<<<<"tests">>, <<"failed">>>>)

TranscriptLines ==
    {DenyTool(<<"npm run build">>), DenyBash("npm test"), LinePermissionDenied,
     LineBudget, LineTimedOut, LineConfigField, LineTestsFailed}

\* The piece occurs somewhere in the text (a raw, case-insensitive substring).
HasPiece(lines, piece) ==
    \E l \in 1 .. Len(lines) : \E w \in 1 .. Len(lines[l].words) :
        \E k \in 1 .. Len(lines[l].words[w]) : lines[l].words[w][k] = piece

\* The pieces occur one after the other, separated by single blanks.
HasPhrase(lines, phrase) ==
    \E l \in 1 .. Len(lines) :
        \E w \in 1 .. Len(lines[l].words) - Len(phrase) + 1 :
            \A j \in 1 .. Len(phrase) :
                LET word == lines[l].words[w + j - 1]
                IN  \E k \in 1 .. Len(word) :
                        /\ word[k] = phrase[j]
                        /\ j > 1 => k = 1
                        /\ j < Len(phrase) => k = Len(word)

\* The pieces occur as whole words one after the other (\b on both sides).
HasWords(lines, phrase) ==
    \E l \in 1 .. Len(lines) :
        \E w \in 1 .. Len(lines[l].words) - Len(phrase) + 1 :
            \A j \in 1 .. Len(phrase) : lines[l].words[w + j - 1] = <<phrase[j]>>

\* /max budget exceeded|budget[_\s]exhausted|spending limit/gi
MatchesBudget(lines) ==
    \/ HasPhrase(lines, <<"max", "budget", "exceeded">>)
    \/ HasPhrase(lines, <<"budget", "exhausted">>)
    \/ HasPhrase(lines, <<"spending", "limit">>)

\* /timed out|SIGTERM|ETIMEDOUT|timeout/gi
MatchesTimeout(lines) ==
    \/ HasPhrase(lines, <<"timed", "out">>)
    \/ HasPiece(lines, "sigterm")
    \/ HasPiece(lines, "etimedout")
    \/ HasPiece(lines, "timeout")

\* /permission|not allowed|denied/i
MatchesGenericDenial(lines) ==
    \/ HasPiece(lines, "permission")
    \/ HasPhrase(lines, <<"not", "allowed">>)
    \/ HasPiece(lines, "denied")

\* The capabilities one capturing rule extracts, in the order of its matches.
RECURSIVE CapsOfRule(_, _)
CapsOfRule(lines, rule) ==
    IF lines = <<>> THEN <<>>
    ELSE IF Head(lines).rule = rule
         THEN <<Head(lines).cap>> \o CapsOfRule(Tail(lines), rule)
         ELSE CapsOfRule(Tail(lines), rule)

FirstDenialOnly(lines) ==
    LET all == CapsOfRule(lines, 1) \o CapsOfRule(lines, 3)
    IN  IF all = <<>> THEN <<>> ELSE <<Head(all)>>

\* missingCapabilities after the loop over PATTERNS: rule by rule, first
\* occurrences only (the `seen` set).
MissingCapabilities(lines) == Dedup(CapsOfRule(lines, 1) \o CapsOfRule(lines, 3))

\* normalizeTool
NormalizeTool(capability) ==
    IF StartsWith(capability, <<"Bash(">>) THEN capability
    ELSE IF capability \in {<<"Read">>, <<"Write">>, <<"Edit">>, <<"Grep">>, <<"Glob">>}
         THEN capability
         ELSE <<"Bash(">> \o capability \o <<":*)">>

Analysis(category, caps, confidence) ==
    [category |-> category,
     missingCapabilities |-> caps,
     suggestedTools |-> [k \in 1 .. Len(caps) |-> NormalizeTool(caps[k])],
     confidence |-> confidence]

NoAnalysis == Analysis("none", <<>>, 0)

\* analyzeFailure(stdout, stderr); confidences in percent.  The loop visits
\* the permission rules first, but they only collect; the first rule that
\* returns from inside the loop is the budget rule, then the timeout rule.
AnalyzeFailure(out, err) ==
    LET combined == out \o err
    IN  IF MatchesBudget(combined) THEN Analysis("budget_exhausted", <<>>, 80)
        ELSE IF MatchesTimeout(combined) THEN Analysis("timeout", <<>>, 80)
        ELSE IF Len(MissingCapabilities(combined)) > 0
             THEN Analysis("permission_denied", MissingCapabilities(combined), 90)
        ELSE IF MatchesGenericDenial(combined)
             THEN Analysis("permission_denied", <<>>, 50)
        ELSE Analysis("implementation_error", <<>>, 30)

AnaInit ==
    /\ stdout \in SeqsUpTo(TranscriptLines, MaxLines)
    /\ stderr \in SeqsUpTo(TranscriptLines, MaxErrLines)
    /\ analysis = NoAnalysis

AnaIdle ==
    /\ stdout = <<>>
    /\ stderr = <<>>
    /\ analysis = NoAnalysis

AnalyzeCall ==
    /\ analysis = NoAnalysis
    /\ analysis' = AnalyzeFailure(stdout, stderr)
    /\ UNCHANGED <<stdout, stderr>>
    /\ AnaFrame

AnaNext == AnalyzeCall

(***************************************************************************)
(* runIssue: one run of the pipeline on one ticket.  Every await or        *)
(* external call is a step; the environment decides each call's outcome.   *)
(***************************************************************************)
RunTicket == "JOS-1"

TodoState == "Todo"
InProgressState == "In Progress"
InReviewState == "In Review"

\* const validStates = [config.linear.todoState, "Backlog"]
ValidStates == {TodoState, "Backlog"}

AGENT_LABEL_PREFIX == <<"agent:">>
DEFAULT_FALLBACK == WorkerRole

\* The orders in which the tracker may list a ticket's labels.
LabelOrders(S) ==
    {q \in SeqsUpTo(S, Cardinality(S)) :
        Len(q) = Cardinality(S) /\ {q[k] : k \in 1 .. Len(q)} = S}

\* dispatch(issue, registry)
Dispatch(labels, reg) ==
    LET hits == {k \in 1 .. Len(labels) : StartsWith(labels[k], AGENT_LABEL_PREFIX)}
    IN  IF hits = {}
        THEN [agentType |-> DEFAULT_FALLBACK, reason |-> "no agent label"]
        ELSE LET first == CHOOSE k \in hits : \A m \in hits : k <= m
                 requestedType == SubSeq(labels[first], Len(AGENT_LABEL_PREFIX) + 1,
                                         Len(labels[first]))
             IN  IF KeyIn(requestedType, reg)
                 THEN [agentType |-> requestedType, reason |-> "matched label"]
                 ELSE [agentType |-> DEFAULT_FALLBACK, reason |-> "unknown agent type"]

\* A registry file that fails validation: a role carries a sudo command.
BadRegistry ==
    WithRole(BaseRegistry, <<"ops">>,
             RoleDef(NoParent, <<ToolRead, ToolSudoApt>>, 50, 5, "human"))

\* A registry file without the fallback role.
NoWorkerRegistry ==
    [n \in {<<"reviewer">>} |-> RoleDef(NoParent, <<ToolRead>>, 20, 2, "human")]

\* blockers.filter((b) => !b.done)
ActiveBlockers(blockers) == SelectSeq(blockers, LAMBDA b : ~b.done)

BlockerLists ==
    {<<>>, <<[done |-> TRUE]>>, <<[done |-> FALSE]>>, <<[done |-> TRUE], [done |-> FALSE]>>}

FailureCategories ==
    {"permission_denied", "budget_exhausted", "timeout", "implementation_error"}

\* The RunResult a run returns (failure(...) or the success literal), or
\* the fact that it raised.
NoResult == [kind |-> "none", success |-> FALSE, attempts |-> 0, error |-> ""]
Failure(a, error) == [kind |-> "returned", success |-> FALSE, attempts |-> a, error |-> error]
Success(a) == [kind |-> "returned", success |-> TRUE, attempts |-> a, error |-> ""]
Raised == [kind |-> "raised", success |-> FALSE, attempts |-> 0, error |-> "raised"]

\* What the review sub-run came to: it raised, or it printed an output that
\* holds no JSON object with "approved", a malformed one, or a verdict.
ReviewOutcome(kind, hasJson, wellFormed, approved) ==
    [kind |-> kind, hasJson |-> hasJson, wellFormed |-> wellFormed, approved |-> approved]

NoReview == ReviewOutcome("none", FALSE, FALSE, FALSE)
ReviewRaises == ReviewOutcome("raised", FALSE, FALSE, FALSE)
NoJsonOutput == ReviewOutcome("output", FALSE, FALSE, FALSE)
MalformedOutput == ReviewOutcome("output", TRUE, FALSE, FALSE)
VerdictOutput(approved) == ReviewOutcome("output", TRUE, TRUE, approved)

ReviewOutcomes ==
    {ReviewRaises, NoJsonOutput, MalformedOutput, VerdictOutput(TRUE), VerdictOutput(FALSE)}

ParseOrApprove(output) ==
    [approved |-> IF output.hasJson /\ output.wellFormed THEN output.approved ELSE TRUE]

\* parseReviewVerdict: no JSON object found, or JSON.parse of it throws: a
\* verdict with approved false; else the parsed object.
ParseReviewVerdict(output) ==
    IF ~output.hasJson THEN [approved |-> FALSE]
    ELSE IF ~output.wellFormed THEN [approved |-> FALSE]
    ELSE [approved |-> output.approved]

\* `verdict` after step 12: undefined when runReview threw.
VerdictOf(outcome) ==
    IF outcome.kind = "raised" THEN "throws"
    ELSE IF ParseReviewVerdict(outcome).approved THEN "approved" ELSE "needs_fixes"

RunStart(dryRun, maxAttempts) ==
    [pc |-> "fetch",
     dryRun |-> dryRun,
     maxAttempts |-> maxAttempts,
     issue |-> [stateName |-> "", labels |-> <<>>],
     blockCheck |-> "none",
     transitionedToInProgress |-> FALSE,
     transitionOk |-> FALSE,
     worktree |-> "none",
     agentType |-> <<>>,
     dispatchReason |-> "",
     attempts |-> 0,
     lastError |-> "",
     pipelineSucceeded |-> FALSE,
     agentExecs |-> 0,
     deniedAt |-> 0,
     validated |-> FALSE,
     pushed |-> FALSE,
     pr |-> FALSE,
     verdict |-> "none",
     reviewOutput |-> NoReview,
     prLabelled |-> FALSE,
     linkComments |-> 0,
     linkCommentOk |-> FALSE,
     linkUpdates |-> 0,
     remoteDeleted |-> FALSE,
     cleanups |-> 0,
     rollbacks |-> 0,
     trackerCalls |-> 0,
     pending |-> NoResult,
     result |-> NoResult]

\* A return (or a throw) before the try block: the run ends at once.
ReturnNow(r, res) == [r EXCEPT !.pc = "done", !.result = res]

\* A return (or a throw) inside the try block: the finally block runs first.
Leave(r, res) == [r EXCEPT !.pc = "cleanup", !.pending = res]

\* if (options.dryRun)
NeverDryRun(r) == FALSE

IsDryRun(r) == r.dryRun

\* issue.labels.includes(config.linear.needsApprovalLabel)
NeverNeedsApproval(labels) == FALSE

HasNeedsApproval(labels) == \E k \in 1 .. Len(labels) : labels[k] = NeedsApprovalLabel

\* if (activeBlockers.length > 0) return failure(...)
BlockedNeverStops(active) == FALSE

BlockedStops(active) == Len(active) > 0

\* if (analysis.category === "permission_denied") ... return failure(...)
NoCategoryStops(category) == FALSE

StopsOnCategory(category) == category = "permission_denied"

\* removeWorktree(..., !pipelineSucceeded, ...): the deleteRemote argument
DeleteRemote(r) == ~r.pipelineSucceeded

\* if (!pipelineSucceeded && transitionedToInProgress)
NeedsRollback(r) == ~r.pipelineSucceeded /\ r.transitionedToInProgress

\* Outcomes of two tracker calls in a row inside one try block.
TwoCalls == {"ok", "second_fails", "first_fails"}
CallsMade(outcome) == IF outcome = "first_fails" THEN 1 ELSE 2
WritesMade(outcome) == IF outcome = "ok" THEN 2 ELSE IF outcome = "second_fails" THEN 1 ELSE 0

\* rollbackInProgress(transitioned, issue, ...): the run's locals afterwards.
RollbackInProgress(r, outcome) ==
    IF ~r.transitionedToInProgress THEN r
    ELSE [r EXCEPT !.rollbacks = @ + 1, !.trackerCalls = @ + CallsMade(outcome)]

\* rollbackInProgress: the ticket's state afterwards.
StateAfterRollback(r, outcome, state) ==
    IF r.transitionedToInProgress /\ outcome # "first_fails" THEN TodoState ELSE state

WritesAfterRollback(r, outcome, writes) ==
    IF r.transitionedToInProgress THEN writes + WritesMade(outcome) ELSE writes

RunInit ==
    /\ run \in {RunStart(d, m) : d \in BOOLEAN, m \in 1 .. MaxAttempts}
    /\ tkState \in {TodoState, "Backlog", InProgressState}
    /\ env \in [blockers : BlockerLists, project : {"none", "unconfigured", "ok"}]
    /\ regFile \in {BaseRegistry, BadRegistry, NoWorkerRegistry}
    /\ regCache = NotLoaded
    /\ proposals = <<>>
    /\ lastOp = Op("none", 0, "ok")
    /\ opCount = 0
    /\ teamLabels = {AgentReadyLabel, NeedsApprovalLabel, AgentTypeLabel(<<"reviewer">>)}
    /\ \E L \in {{AgentReadyLabel},
                 {AgentReadyLabel, NeedsApprovalLabel},
                 {AgentTypeLabel(<<"reviewer">>), AgentReadyLabel},
                 {AgentTypeLabel(<<"ghost">>), AgentReadyLabel},
                 {AgentTypeLabel(<<"ghost">>), AgentTypeLabel(<<"reviewer">>)},
                 {AgentTypeLabel(<<"constructor">>), AgentReadyLabel}} :
          tkLabels = [t \in Tickets |-> IF t = RunTicket THEN L ELSE {AgentReadyLabel}]
    /\ tkWrites = 0
    /\ badLookup = NoLookup
    /\ regCall = NoCall

RunIdle ==
    /\ run = RunStart(FALSE, 1)
    /\ tkState = TodoState
    /\ env = [blockers |-> <<>>, project |-> "ok"]

RunKeepsProps == UNCHANGED <<regFile, regCache, proposals, tkLabels, tkWrites>>

\* 1. fetchIssue throws: return failure(..., 0)
FetchFails ==
    /\ run.pc = "fetch"
    /\ run' = ReturnNow(run, Failure(0, "fetch"))
    /\ UNCHANGED <<tkState, env>>
    /\ RunKeepsProps
    /\ RunFrame

\* 1. fetchIssue returns the ticket as the tracker holds it.
FetchOk ==
    /\ run.pc = "fetch"
    /\ \E labels \in LabelOrders(tkLabels[RunTicket]) :
          run' = [run EXCEPT !.pc = "dryrun",
                             !.issue = [stateName |-> tkState, labels |-> labels]]
    /\ UNCHANGED <<tkState, env>>
    /\ RunKeepsProps
    /\ RunFrame

\* if (options.dryRun) return { success: true, attempts: 0 }
DryRunReturn ==
    /\ run.pc = "dryrun"
    /\ IsDryRun(run)
    /\ run' = ReturnNow(run, Success(0))
    /\ UNCHANGED <<tkState, env>>
    /\ RunKeepsProps
    /\ RunFrame

\* 2. the state is not Todo or Backlog: return failure(..., 0)
RejectState ==
    /\ run.pc = "dryrun"
    /\ ~IsDryRun(run)
    /\ run.issue.stateName \notin ValidStates
    /\ run' = ReturnNow(run, Failure(0, "state"))
    /\ UNCHANGED <<tkState, env>>
    /\ RunKeepsProps
    /\ RunFrame

\* 2.3. the ticket carries needs-human-approval: return failure(..., 0)
RejectNeedsApproval ==
    /\ run.pc = "dryrun"
    /\ ~IsDryRun(run)
    /\ run.issue.stateName \in ValidStates
    /\ HasNeedsApproval(run.issue.labels)
    /\ run' = ReturnNow(run, Failure(0, "needs_approval"))
    /\ UNCHANGED <<tkState, env>>
    /\ RunKeepsProps
    /\ RunFrame

PreconditionsPass ==
    /\ run.pc = "dryrun"
    /\ ~IsDryRun(run)
    /\ run.issue.stateName \in ValidStates
    /\ ~HasNeedsApproval(run.issue.labels)
    /\ run' = [run EXCEPT !.pc = "blockers"]
    /\ UNCHANGED <<tkState, env>>
    /\ RunKeepsProps
    /\ RunFrame

\* 2.5. fetchBlockingRelations throws: logged, the run goes on.
BlockersThrow ==
    /\ run.pc = "blockers"
    /\ run' = [run EXCEPT !.pc = "project", !.blockCheck = "threw"]
    /\ UNCHANGED <<tkState, env>>
    /\ RunKeepsProps
    /\ RunFrame

\* 2.5. an active blocker is found: return failure(..., 0)
BlockersBlocked ==
    /\ run.pc = "blockers"
    /\ BlockedStops(ActiveBlockers(env.blockers))
    /\ run' = ReturnNow([run EXCEPT !.blockCheck = "returned"], Failure(0, "blocked"))
    /\ UNCHANGED <<tkState, env>>
    /\ RunKeepsProps
    /\ RunFrame

BlockersClear ==
    /\ run.pc = "blockers"
    /\ ~BlockedStops(ActiveBlockers(env.blockers))
    /\ run' = [run EXCEPT !.pc = "project", !.blockCheck = "returned"]
    /\ UNCHANGED <<tkState, env>>
    /\ RunKeepsProps
    /\ RunFrame

\* 3. no project, or getProjectConfig throws: return failure(..., 0)
ProjectMissing ==
    /\ run.pc = "project"
    /\ env.project # "ok"
    /\ run' = ReturnNow(run, Failure(0, "project"))
    /\ UNCHANGED <<tkState, env>>
    /\ RunKeepsProps
    /\ RunFrame

ProjectResolved ==
    /\ run.pc = "project"
    /\ env.project = "ok"
    /\ run' = [run EXCEPT !.pc = "transition"]
    /\ UNCHANGED <<tkState, env>>
    /\ RunKeepsProps
    /\ RunFrame

\* 4. transitionIssue, then addComment, then transitionedToInProgress = true;
\* a throw of either call is logged and skips the rest of the block.
Transition(outcome) ==
    /\ run.pc = "transition"
    /\ run' = [run EXCEPT !.pc = "worktree",
                          !.trackerCalls = @ + CallsMade(outcome),
                          !.transitionOk = (outcome # "first_fails"),
                          !.transitionedToInProgress = (outcome = "ok")]
    /\ tkState' = IF outcome # "first_fails" THEN InProgressState ELSE tkState
    /\ tkWrites' = tkWrites + WritesMade(outcome)
    /\ UNCHANGED <<env, regFile, regCache, proposals, tkLabels>>
    /\ RunFrame

\* 5. createWorktree throws: rollbackInProgress, return failure(..., 0)
CreateWorktreeFails(outcome) ==
    /\ run.pc = "worktree"
    /\ run' = ReturnNow(RollbackInProgress(run, outcome), Failure(0, "worktree"))
    /\ tkState' = StateAfterRollback(run, outcome, tkState)
    /\ tkWrites' = WritesAfterRollback(run, outcome, tkWrites)
    /\ UNCHANGED <<env, regFile, regCache, proposals, tkLabels>>
    /\ RunFrame

CreateWorktreeOk ==
    /\ run.pc = "worktree"
    /\ run' = [run EXCEPT !.pc = "dispatch", !.worktree = "created"]
    /\ UNCHANGED <<tkState, env>>
    /\ RunKeepsProps
    /\ RunFrame

\* 5.5. loadRegistry throws (the file fails validation): this is before the
\* try block, so the run raises with no cleanup and no rollback.
LoadRegistryThrows ==
    /\ run.pc = "dispatch"
    /\ LoadThrows(regCache, regFile)
    /\ run' = ReturnNow(run, Raised)
    /\ UNCHANGED <<tkState, env>>
    /\ RunKeepsProps
    /\ RunFrame

\* 5.5. loadRegistry, dispatch; the try block and the attempt loop are entered.
DispatchOk ==
    /\ run.pc = "dispatch"
    /\ ~LoadThrows(regCache, regFile)
    /\ LET reg == LoadedRegistry(regCache, regFile)
       IN  /\ regCache' = [loaded |-> TRUE, reg |-> reg]
           /\ run' = [run EXCEPT !.pc = "attempt",
                                 !.agentType = Dispatch(run.issue.labels, reg).agentType,
                                 !.dispatchReason = Dispatch(run.issue.labels, reg).reason,
                                 !.attempts = 1]
    /\ UNCHANGED <<tkState, env, regFile, proposals, tkLabels, tkWrites>>
    /\ RunFrame

\* The loop's attempts++ and its test attempts <= maxAttempts.
NextAttempt(r) ==
    [r EXCEPT !.attempts = @ + 1,
              !.pc = IF r.attempts + 1 <= r.maxAttempts THEN "attempt" ELSE "commits"]

\* 6. spawnAgent throws before the agent starts: the dispatched type is not
\* in the registry (resolveAgentType).
SpawnThrows ==
    /\ run.pc = "attempt"
    /\ run.agentType \notin DOMAIN regCache.reg
    /\ run' = Leave(run, Raised)
    /\ UNCHANGED <<tkState, env>>
    /\ RunKeepsProps
    /\ RunFrame

\* 6./7. the agent succeeds and validation passes: break
AgentSucceedsValid ==
    /\ run.pc = "attempt"
    /\ run.agentType \in DOMAIN regCache.reg
    /\ run' = [run EXCEPT !.pc = "commits", !.agentExecs = @ + 1, !.validated = TRUE]
    /\ UNCHANGED <<tkState, env>>
    /\ RunKeepsProps
    /\ RunFrame

\* 7. validation fails with attempts left: the errors go to the next prompt.
AgentSucceedsInvalidRetry ==
    /\ run.pc = "attempt"
    /\ run.agentType \in DOMAIN regCache.reg
    /\ run.attempts < run.maxAttempts
    /\ run' = NextAttempt([run EXCEPT !.agentExecs = @ + 1, !.lastError = "validation"])
    /\ UNCHANGED <<tkState, env>>
    /\ RunKeepsProps
    /\ RunFrame

\* 7. validation fails on the last attempt: addComment (not caught), then
\* return failure(..., attempts).
AgentSucceedsInvalidLast(commentOk) ==
    /\ run.pc = "attempt"
    /\ run.agentType \in DOMAIN regCache.reg
    /\ run.attempts >= run.maxAttempts
    /\ LET r == [run EXCEPT !.agentExecs = @ + 1, !.lastError = "validation",
                            !.trackerCalls = @ + 1]
       IN  run' = Leave(r, IF commentOk THEN Failure(run.attempts, "validation") ELSE Raised)
    /\ tkWrites' = IF commentOk THEN tkWrites + 1 ELSE tkWrites
    /\ UNCHANGED <<tkState, env, regFile, regCache, proposals, tkLabels>>
    /\ RunFrame

\* 6.5. the agent fails and the failure is permission_denied: createProposal
\* (its own tracker writes are best-effort), return failure(..., attempts).
AgentDenied(category, suggested, trackerOk) ==
    /\ run.pc = "attempt"
    /\ run.agentType \in DOMAIN regCache.reg
    /\ StopsOnCategory(category)
    /\ LET r == [run EXCEPT !.agentExecs = @ + 1, !.lastError = "agent",
                            !.deniedAt = IF category = "permission_denied"
                                         THEN run.attempts ELSE @,
                            !.trackerCalls = @ + IF trackerOk THEN 2 ELSE 1]
       IN  run' = Leave(r, Failure(run.attempts, "permission_denied"))
    /\ proposals' = ProposalsAfterCreate(proposals, RunTicket, run.agentType,
                                         suggested, regCache.reg)
    /\ IF trackerOk
       THEN /\ tkLabels' = [tkLabels EXCEPT ![RunTicket] =
                                LabelsAfterCreate(
                                    {run.issue.labels[k] : k \in 1 .. Len(run.issue.labels)},
                                    teamLabels)]
            /\ tkWrites' = tkWrites + 2
       ELSE UNCHANGED <<tkLabels, tkWrites>>
    /\ UNCHANGED <<tkState, env, regFile, regCache>>
    /\ RunFrame

\* 6.5. the agent fails for another reason: continue
AgentFailsRetry(category) ==
    /\ run.pc = "attempt"
    /\ run.agentType \in DOMAIN regCache.reg
    /\ ~StopsOnCategory(category)
    /\ run' = NextAttempt([run EXCEPT !.agentExecs = @ + 1, !.lastError = "agent",
                                      !.deniedAt = IF category = "permission_denied"
                                                   THEN run.attempts ELSE @])
    /\ UNCHANGED <<tkState, env>>
    /\ RunKeepsProps
    /\ RunFrame

\* 8. hasCommits is false: return failure(..., attempts)
NoCommits ==
    /\ run.pc = "commits"
    /\ run' = Leave(run, Failure(run.attempts, "no_commits"))
    /\ UNCHANGED <<tkState, env>>
    /\ RunKeepsProps
    /\ RunFrame

HasCommits ==
    /\ run.pc = "commits"
    /\ run' = [run EXCEPT !.pc = "push"]
    /\ UNCHANGED <<tkState, env>>
    /\ RunKeepsProps
    /\ RunFrame

\* 9. pushBranch throws: return failure(..., attempts)
PushFails ==
    /\ run.pc = "push"
    /\ run' = Leave(run, Failure(run.attempts, "push"))
    /\ UNCHANGED <<tkState, env>>
    /\ RunKeepsProps
    /\ RunFrame

PushOk ==
    /\ run.pc = "push"
    /\ run' = [run EXCEPT !.pc = "pr", !.pushed = TRUE]
    /\ UNCHANGED <<tkState, env>>
    /\ RunKeepsProps
    /\ RunFrame

\* 10. createPR throws: return failure(..., attempts)
CreatePRFails ==
    /\ run.pc = "pr"
    /\ run' = Leave(run, Failure(run.attempts, "pr"))
    /\ UNCHANGED <<tkState, env>>
    /\ RunKeepsProps
    /\ RunFrame

CreatePROk ==
    /\ run.pc = "pr"
    /\ run' = [run EXCEPT !.pc = "link", !.pr = TRUE]
    /\ UNCHANGED <<tkState, env>>
    /\ RunKeepsProps
    /\ RunFrame

\* 11. addComment with the PR link, once; a throw is logged and nothing
\* else is tried (no second addComment, no updateIssue).
LinkPR(commentOk) ==
    /\ run.pc = "link"
    /\ run' = [run EXCEPT !.pc = "review", !.trackerCalls = @ + 1,
                          !.linkComments = @ + 1, !.linkCommentOk = commentOk]
    /\ tkWrites' = IF commentOk THEN tkWrites + 1 ELSE tkWrites
    /\ UNCHANGED <<tkState, env, regFile, regCache, proposals, tkLabels>>
    /\ RunFrame

\* 12. runReview: it throws (verdict undefined), or yields a verdict; an
\* unparseable output yields a verdict with approved false.
Review(outcome) ==
    /\ run.pc = "review"
    /\ run' = [run EXCEPT !.pc = "act", !.verdict = VerdictOf(outcome),
                          !.reviewOutput = outcome]
    /\ UNCHANGED <<tkState, env>>
    /\ RunKeepsProps
    /\ RunFrame

\* 13. approved: addPRLabel, transitionIssue(in review), addComment, in one
\* try block; then pipelineSucceeded = true and the success result.
ActApproved(labelOk, outcome) ==
    /\ run.pc = "act"
    /\ run.verdict = "approved"
    /\ LET calls == IF labelOk THEN CallsMade(outcome) ELSE 0
           r == [run EXCEPT !.trackerCalls = @ + calls, !.pipelineSucceeded = TRUE,
                            !.prLabelled = labelOk]
       IN  run' = Leave(r, Success(run.attempts))
    /\ tkState' = IF labelOk /\ outcome # "first_fails" THEN InReviewState ELSE tkState
    /\ tkWrites' = IF labelOk THEN tkWrites + WritesMade(outcome) ELSE tkWrites
    /\ UNCHANGED <<env, regFile, regCache, proposals, tkLabels>>
    /\ RunFrame

\* 13. not approved: createChildIssue, addPRComment, in one try block.
ActNeedsFixes(childOk) ==
    /\ run.pc = "act"
    /\ run.verdict = "needs_fixes"
    /\ LET r == [run EXCEPT !.trackerCalls = @ + 1, !.pipelineSucceeded = TRUE]
       IN  run' = Leave(r, Success(run.attempts))
    /\ tkWrites' = IF childOk THEN tkWrites + 1 ELSE tkWrites
    /\ UNCHANGED <<tkState, env, regFile, regCache, proposals, tkLabels>>
    /\ RunFrame

\* 13. no verdict (the review threw): nothing to act on.
ActNoVerdict ==
    /\ run.pc = "act"
    /\ run.verdict = "throws"
    /\ run' = Leave([run EXCEPT !.pipelineSucceeded = TRUE], Success(run.attempts))
    /\ UNCHANGED <<tkState, env>>
    /\ RunKeepsProps
    /\ RunFrame

\* 14. finally: removeWorktree(repo, id, !pipelineSucceeded); a throw is logged.
Cleanup ==
    /\ run.pc = "cleanup"
    /\ run' = [run EXCEPT !.pc = "rollback",
                          !.cleanups = @ + 1,
                          !.worktree = "removed",
                          !.remoteDeleted = DeleteRemote(run)]
    /\ UNCHANGED <<tkState, env>>
    /\ RunKeepsProps
    /\ RunFrame

\* 15. finally: the run failed after it recorded the transition: roll back;
\* then the pending return or throw completes.
RollbackRuns(outcome) ==
    /\ run.pc = "rollback"
    /\ NeedsRollback(run)
    /\ run' = ReturnNow(RollbackInProgress(run, outcome), run.pending)
    /\ tkState' = StateAfterRollback(run, outcome, tkState)
    /\ tkWrites' = WritesAfterRollback(run, outcome, tkWrites)
    /\ UNCHANGED <<env, regFile, regCache, proposals, tkLabels>>
    /\ RunFrame

RollbackSkipped ==
    /\ run.pc = "rollback"
    /\ ~NeedsRollback(run)
    /\ run' = ReturnNow(run, run.pending)
    /\ UNCHANGED <<tkState, env>>
    /\ RunKeepsProps
    /\ RunFrame

RunNext ==
    \/ FetchFails
    \/ FetchOk
    \/ DryRunReturn
    \/ RejectState
    \/ RejectNeedsApproval
    \/ PreconditionsPass
    \/ BlockersThrow
    \/ BlockersBlocked
    \/ BlockersClear
    \/ ProjectMissing
    \/ ProjectResolved
    \/ \E outcome \in TwoCalls : Transition(outcome)
    \/ \E outcome \in TwoCalls : CreateWorktreeFails(outcome)
    \/ CreateWorktreeOk
    \/ LoadRegistryThrows
    \/ DispatchOk
    \/ SpawnThrows
    \/ AgentSucceedsValid
    \/ AgentSucceedsInvalidRetry
    \/ \E commentOk \in BOOLEAN : AgentSucceedsInvalidLast(commentOk)
    \/ \E category \in FailureCategories, suggested \in SuggestedChoices, trackerOk \in BOOLEAN :
          AgentDenied(category, suggested, trackerOk)
    \/ \E category \in FailureCategories : AgentFailsRetry(category)
    \/ NoCommits
    \/ HasCommits
    \/ PushFails
    \/ PushOk
    \/ CreatePRFails
    \/ CreatePROk
    \/ \E commentOk \in BOOLEAN : LinkPR(commentOk)
    \/ \E outcome \in ReviewOutcomes : Review(outcome)
    \/ \E labelOk \in BOOLEAN, outcome \in TwoCalls : ActApproved(labelOk, outcome)
    \/ \E childOk \in BOOLEAN : ActNeedsFixes(childOk)
    \/ ActNoVerdict
    \/ Cleanup
    \/ \E outcome \in TwoCalls : RollbackRuns(outcome)
    \/ RollbackSkipped

\* ---- a ticket across runs: a run is denied and proposes a role, the
\* proposal is approved, the ticket is run again.
RequeueInit ==
    /\ regFile = BaseRegistry
    /\ regCache = NotLoaded
    /\ proposals = <<>>
    /\ lastOp = Op("none", 0, "ok")
    /\ opCount = 0
    /\ teamLabels \in
          {{AgentReadyLabel, NeedsApprovalLabel, AgentTypeLabel(<<"reviewer">>)},
           {AgentReadyLabel, NeedsApprovalLabel, AgentTypeLabel(<<"reviewer">>),
            AgentTypeLabel(ProposedName(WorkerRole, RunTicket)),
            AgentTypeLabel(ProposedName(<<"reviewer">>, RunTicket))}}
    /\ \E L \in {{AgentReadyLabel}, {AgentReadyLabel, AgentTypeLabel(<<"reviewer">>)}} :
          tkLabels = [t \in Tickets |-> IF t = RunTicket THEN L ELSE {AgentReadyLabel}]
    /\ tkWrites = 0
    /\ badLookup = NoLookup
    /\ regCall = NoCall
    /\ RunIdle

\* A run of the ticket in which the dispatched role is denied a capability:
\* createProposal for that role (run-issue.ts 185-204).
DeniedRun(suggested, trackerOk) ==
    /\ run.pc = "fetch"
    /\ \E labels \in LabelOrders(tkLabels[RunTicket]) :
          /\ ~HasNeedsApproval(labels)
          /\ CreateProposal(RunTicket,
                            Dispatch(labels, LoadedRegistry(regCache, regFile)).agentType,
                            suggested, trackerOk)

RequeueNext ==
    \/ \E suggested \in {<<ToolNpmRun>>}, trackerOk \in BOOLEAN : DeniedRun(suggested, trackerOk)
    \/ \E id \in ProposalIds, trackerOk \in BOOLEAN : ApproveProposal(id, trackerOk)
    \/ FetchOk
    \/ RejectNeedsApproval
    \/ PreconditionsPass
    \/ BlockersClear
    \/ ProjectResolved
    \/ \E outcome \in TwoCalls : Transition(outcome)
    \/ CreateWorktreeOk
    \/ DispatchOk

(***************************************************************************)
(* computeLabelDiff.  Label names and ids are strings; teamLabels is the   *)
(* name -> id map; the Set of ids is kept as the sequence of its insertion *)
(* order.                                                                  *)
(***************************************************************************)
MaxNames == 2

LabelNames == {"agent-ready", "needs-review", "nonexistent-label"}
LabelIds == {"id-agent-ready", "id-needs-review", "id-existing"}

\* The team's labels, by name.
TeamLabelMap ==
    [name \in {"agent-ready", "needs-review"} |->
        IF name = "agent-ready" THEN "id-agent-ready" ELSE "id-needs-review"]

HasId(ids, id) == \E k \in 1 .. Len(ids) : ids[k] = id

\* for (const name of addNames): an id the map knows and the set lacks is
\* added, and the name reported.
RECURSIVE AddLabels(_, _, _, _)
AddLabels(names, team, ids, added) ==
    IF names = <<>> THEN [ids |-> ids, added |-> added]
    ELSE LET name == Head(names)
         IN  IF name \in DOMAIN team /\ ~HasId(ids, team[name])
             THEN AddLabels(Tail(names), team, Append(ids, team[name]), Append(added, name))
             ELSE AddLabels(Tail(names), team, ids, added)

\* for (const name of removeNames): an id the map knows and the set holds is
\* deleted, and the name reported.
RECURSIVE RemoveLabels(_, _, _, _)
RemoveLabels(names, team, ids, removed) ==
    IF names = <<>> THEN [ids |-> ids, removed |-> removed]
    ELSE LET name == Head(names)
         IN  IF name \in DOMAIN team /\ HasId(ids, team[name])
             THEN RemoveLabels(Tail(names), team,
                               SelectSeq(ids, LAMBDA id : id # team[name]),
                               Append(removed, name))
             ELSE RemoveLabels(Tail(names), team, ids, removed)

ComputeLabelDiff(currentLabelIds, team, addNames, removeNames) ==
    LET a == AddLabels(addNames, team, Dedup(currentLabelIds), <<>>)
        r == RemoveLabels(removeNames, team, a.ids, <<>>)
    IN  [newLabelIds |-> r.ids, labelsAdded |-> a.added, labelsRemoved |-> r.removed]

NoDiff == [newLabelIds |-> <<>>, labelsAdded |-> <<>>, labelsRemoved |-> <<>>]

LabelCall(current, addNames, removeNames, called, result) ==
    [currentLabelIds |-> current, addNames |-> addNames, removeNames |-> removeNames,
     called |-> called, result |-> result]

DiffInit ==
    \E current \in SeqsUpTo(LabelIds, MaxNames),
       addNames \in SeqsUpTo(LabelNames, MaxNames),
       removeNames \in SeqsUpTo(LabelNames, MaxNames) :
        labelCall = LabelCall(current, addNames, removeNames, FALSE, NoDiff)

DiffIdle == labelCall = LabelCall(<<>>, <<>>, <<>>, FALSE, NoDiff)

DiffCall ==
    /\ ~labelCall.called
    /\ labelCall' = [labelCall EXCEPT
          !.called = TRUE,
          !.result = ComputeLabelDiff(labelCall.currentLabelIds, TeamLabelMap,
                                      labelCall.addNames, labelCall.removeNames)]
    /\ UNCHANGED <<poolVars, lockVars, propVars, runVars, anaVars, cmdVars, storeVars>>

DiffNext == DiffCall

(***************************************************************************)
(* Specifications: one per subsystem.                                      *)
(***************************************************************************)
InitPool == PoolInit /\ LockIdle /\ PropIdle /\ RunIdle /\ AnaIdle /\ CmdIdle /\ StoreIdle /\ DiffIdle

SpecPool == InitPool /\ [][PoolNext]_vars

\* The event loop runs every continuation that is ready, and every job settles.
SpecPoolLive == InitPool /\ [][PoolNext]_vars /\ WF_vars(PoolNext)


InitBatch == PoolInit /\ LockIdle /\ PropIdle /\ RunIdle /\ AnaIdle /\ CmdIdle /\ StoreIdle /\ DiffIdle

SpecBatch == InitBatch /\ [][BatchNext]_vars

InitLock == LockInit /\ PoolIdle /\ PropIdle /\ RunIdle /\ AnaIdle /\ CmdIdle /\ StoreIdle /\ DiffIdle

SpecLock == InitLock /\ [][LockNext]_vars

\* Every invocation is eventually made, and acquireLock, being synchronous,
\* runs to its end once called.
SpecLockLive ==
    InitLock /\ [][LockNext]_vars /\ \A p \in Drains : WF_vars(AcquireStep(p))


InitProp == PropInit /\ PoolIdle /\ LockIdle /\ RunIdle /\ AnaIdle /\ CmdIdle /\ StoreIdle /\ DiffIdle

SpecProp == InitProp /\ [][PropNext]_vars

InitRun == RunInit /\ PoolIdle /\ LockIdle /\ AnaIdle /\ CmdIdle /\ StoreIdle /\ DiffIdle

SpecRun == InitRun /\ [][RunNext]_vars

InitReg == RegInit /\ PoolIdle /\ LockIdle /\ RunIdle /\ AnaIdle /\ CmdIdle /\ StoreIdle /\ DiffIdle

SpecReg == InitReg /\ [][RegNext]_vars

InitCmd == PropInit /\ PoolIdle /\ LockIdle /\ RunIdle /\ AnaIdle /\ CmdIdle /\ StoreIdle /\ DiffIdle

SpecCmd == InitCmd /\ [][CmdNext]_vars

InitStore == PropIdle /\ PoolIdle /\ LockIdle /\ RunIdle /\ AnaIdle /\ CmdIdle /\ StoreIdle /\ DiffIdle

SpecStore == InitStore /\ [][StoreNext]_vars

InitRequeue == RequeueInit /\ PoolIdle /\ LockIdle /\ AnaIdle /\ CmdIdle /\ StoreIdle /\ DiffIdle

SpecRequeue == InitRequeue /\ [][RequeueNext]_vars

InitDiff == DiffInit /\ PoolIdle /\ LockIdle /\ PropIdle /\ RunIdle /\ AnaIdle /\ CmdIdle /\ StoreIdle

SpecDiff == InitDiff /\ [][DiffNext]_vars

InitAna == AnaInit /\ PoolIdle /\ LockIdle /\ PropIdle /\ RunIdle /\ CmdIdle /\ StoreIdle /\ DiffIdle

SpecAna == InitAna /\ [][AnaNext]_vars

(***************************************************************************)
(* Properties.                                                             *)
(***************************************************************************)
\* C1: when no job raises and N >= 1, the resolved array has the input's
\* length and slot i holds fn(items[i]), whatever the completion order.
C1_ResultsInInputOrder ==
    (poolStatus = "resolved" /\ throwsAt = {} /\ concurrency >= 1) =>
        /\ DOMAIN results = 1 .. Len(items)
        /\ \A i \in 1 .. Len(items) : results[i] = Fn(items[i])

\* C1 witness: a parallel call over three items with distinct results has
\* resolved after the jobs completed out of input order.
C1_Witness ==
    /\ poolStatus = "resolved"
    /\ throwsAt = {}
    /\ concurrency > 1
    /\ items = <<3, 1, 2>>
    /\ results = <<Fn(3), Fn(1), Fn(2)>>

\* The invocations to which acquireLock returned true and that still run
\* their batch.
Holders == {p \in Drains : lpc[p] = "holding"}

\* C2: as long as no release has happened and the lock is younger than its
\* TTL, acquireLock has returned true to at most one drain invocation.
C2_AtMostOneHolder ==
    (~released /\ lockFile.exists /\ LockFresh(lockFile.content, now)) =>
        Cardinality(Holders) <= 1

\* C4: no two pending proposals exist for the same (ticket, base role) pair.
C4_NoDuplicatePending ==
    \A i, j \in 1 .. Len(proposals) :
        (/\ i # j
         /\ proposals[i].status = "pending"
         /\ proposals[j].status = "pending"
         /\ proposals[i].issueIdentifier = proposals[j].issueIdentifier)
            => proposals[i].baseAgentType # proposals[j].baseAgentType

\* C5: approve or reject called on a proposal that is already approved or
\* rejected ends in an error and changes neither the proposal records nor
\* the registry (file and cache).
C5_ResolvedRejectsReresolve ==
    [][(/\ opCount' # opCount
        /\ lastOp'.op \in {"approve", "reject"}
        /\ lastOp'.id \in 1 .. Len(proposals)
        /\ proposals[lastOp'.id].status \in {"approved", "rejected"})
          => (/\ lastOp'.result = "error"
              /\ proposals' = proposals
              /\ regFile' = regFile
              /\ regCache' = regCache)]_vars

\* C5 witness: a reject has been refused on a proposal that an earlier call
\* approved.
C5_Witness ==
    /\ lastOp.op = "reject"
    /\ lastOp.result = "error"
    /\ lastOp.id \in 1 .. Len(proposals)
    /\ proposals[lastOp.id].status = "approved"

\* C3: once an attempt's failure is classified as capability-denied, the
\* agent is not executed again: the executions stay at that attempt's
\* ordinal, the run is on its way out, and it returns a failure whose
\* attempt count is that ordinal.
C3_DeniedStopsRun ==
    run.deniedAt > 0 =>
        /\ run.agentExecs = run.deniedAt
        /\ run.pc \in {"cleanup", "rollback", "done"}
        /\ run.pc # "done" => run.pending = Failure(run.deniedAt, "permission_denied")
        /\ run.pc = "done" => run.result = Failure(run.deniedAt, "permission_denied")

\* C3 witness: the run has ended after a denial at an attempt that was not
\* the last one allowed.
C3_Witness ==
    /\ run.pc = "done"
    /\ run.deniedAt >= 1
    /\ run.deniedAt < run.maxAttempts
    /\ Len(proposals) = 1

\* C6: a run whose step-4 transition call succeeded and that ended without
\* success has attempted a rollback.
C6_RollbackAttempted ==
    (run.pc = "done" /\ run.transitionOk /\ ~run.result.success) => run.rollbacks >= 1

\* C7: at the end of a run, rollback has run exactly once if the run did not
\* succeed and recorded the step-4 transition, and not at all otherwise.
C7_RollbackExactlyOnce ==
    run.pc = "done" =>
        run.rollbacks = IF ~run.result.success /\ run.transitionedToInProgress THEN 1 ELSE 0

\* C8: at the end of a run that created a workspace, cleanup has run exactly
\* once, and it deleted the remote branch iff the run did not succeed.
C8_CleanupOnce ==
    (run.pc = "done" /\ run.worktree # "none") =>
        /\ run.cleanups = 1
        /\ run.remoteDeleted <=> ~run.result.success

\* C9: with dry-run set, the run makes no tracker call, creates no proposal
\* and no workspace and executes no agent; once the ticket is fetched it
\* returns success with attempt count 0, whatever the ticket looks like.
C9_DryRunNoEffects ==
    run.dryRun =>
        /\ run.trackerCalls = 0
        /\ tkWrites = 0
        /\ proposals = <<>>
        /\ run.worktree = "none"
        /\ run.agentExecs = 0
        /\ run.pc \in {"fetch", "dryrun", "done"}
        /\ (run.pc = "done" /\ run.issue.stateName # "") => run.result = Success(0)

\* C9 witness: a dry run has returned for a ticket that is in progress,
\* carries the needs-approval label and has an incomplete blocker.
C9_Witness ==
    /\ run.dryRun
    /\ run.pc = "done"
    /\ run.result = Success(0)
    /\ run.issue.stateName = InProgressState
    /\ NeedsApprovalLabel \in tkLabels[RunTicket]
    /\ Len(ActiveBlockers(env.blockers)) > 0

\* What has not happened before the step-4 transition.
NothingDoneYet ==
    /\ run.trackerCalls = 0
    /\ tkWrites = 0
    /\ proposals = <<>>
    /\ run.worktree = "none"
    /\ run.agentExecs = 0

\* C10 as stated: for a ticket with an incomplete blocking relation, a run
\* that has made the re-check has returned failure with attempt count 0 and
\* done nothing, and no run is at or past the transition to in-progress.
C10_BlockedNeverProceeds ==
    Len(ActiveBlockers(env.blockers)) > 0 =>
        /\ run.blockCheck # "none" =>
              (run.pc = "done" /\ run.result = Failure(0, "blocked") /\ NothingDoneYet)
        /\ run.pc \in {"fetch", "dryrun", "blockers", "done"}

\* C10 amended: for a ticket with an incomplete blocking relation, a run
\* whose re-check returned has returned failure with attempt count 0 and
\* done nothing; a run is at or past the transition to in-progress only if
\* its re-check raised.
C10_BlockedStopsUnlessCheckFails ==
    Len(ActiveBlockers(env.blockers)) > 0 =>
        /\ run.blockCheck = "returned" =>
              (run.pc = "done" /\ run.result = Failure(0, "blocked") /\ NothingDoneYet)
        /\ run.blockCheck # "threw" =>
              (run.pc \in {"fetch", "dryrun", "blockers", "done"} /\ NothingDoneYet)

\* C10 witness: the re-check found an incomplete blocker next to a complete
\* one and the run has returned.
C10_Witness ==
    /\ run.pc = "done"
    /\ run.blockCheck = "returned"
    /\ run.result = Failure(0, "blocked")
    /\ env.blockers = <<[done |-> TRUE], [done |-> FALSE]>>

\* The ticket as the run fetched it carries the needs-approval label.
LabelSeen == \E k \in 1 .. Len(run.issue.labels) : run.issue.labels[k] = NeedsApprovalLabel

\* C11 as stated: a run that fetched a ticket carrying the needs-approval
\* label never gets past the precondition checks, does nothing, and returns
\* a failure with attempt count 0.
C11_LabelledAlwaysFails ==
    LabelSeen =>
        /\ NothingDoneYet
        /\ run.pc \in {"dryrun", "done"}
        /\ run.pc = "done" => (~run.result.success /\ run.result.kind = "returned"
                                  /\ run.result.attempts = 0)

\* C11 amended: a run that fetched a ticket carrying the needs-approval
\* label never gets past the precondition checks and does nothing; without
\* dry-run it returns a failure with attempt count 0, with dry-run it returns
\* the dry-run success with attempt count 0.
C11_LabelledNeverRuns ==
    LabelSeen =>
        /\ NothingDoneYet
        /\ run.pc \in {"dryrun", "done"}
        /\ run.pc = "done" =>
              run.result = IF run.dryRun THEN Success(0)
                           ELSE IF run.issue.stateName \in ValidStates
                                THEN Failure(0, "needs_approval")
                                ELSE Failure(0, "state")

\* C11 witness: a run without dry-run on a ready ticket that carries the
\* label next to agent-ready has returned the needs-approval failure.
C11_Witness ==
    /\ LabelSeen
    /\ ~run.dryRun
    /\ run.issue.stateName = TodoState
    /\ run.pc = "done"
    /\ run.result = Failure(0, "needs_approval")

\* C12: a getProposal, approveProposal or rejectProposal call with an id that
\* is not of the generated-identifier format ends in an error, and no path
\* was built from the id and no file was looked at or read.
C12_ForeignIdRejectedFirst ==
    badLookup.op # "none" =>
        /\ badLookup.result = "error"
        /\ badLookup.path = <<>>
        /\ ~badLookup.statted
        /\ ~badLookup.read

\* A capability that equals a forbidden prefix or extends one with a suffix.
ForbiddenCapability(tool) ==
    \E k \in 1 .. Len(FORBIDDEN_PREFIXES) :
        /\ Len(FORBIDDEN_PREFIXES[k]) <= Len(tool)
        /\ \A j \in 1 .. Len(FORBIDDEN_PREFIXES[k]) : tool[j] = FORBIDDEN_PREFIXES[k][j]

\* Some role's own capabilities, together with its parent's, contain a
\* forbidden capability.
Tainted(reg) ==
    \E name \in DOMAIN reg :
        LET own == reg[name].tools
            inherited == IF reg[name].extends \in DOMAIN reg
                         THEN reg[reg[name].extends].tools ELSE <<>>
        IN  \/ \E k \in 1 .. Len(own) : ForbiddenCapability(own[k])
            \/ \E k \in 1 .. Len(inherited) : ForbiddenCapability(inherited[k])

\* C13: a load or an add whose registry has a role with a forbidden
\* capability in its resolved list (exact or with a suffix) fails, and neither
\* the cached registry nor the registry file ever comes to hold such a role
\* through a load or an add.
C13_ForbiddenPrefixRejected ==
    /\ (regCall.op # "none" /\ Tainted(regCall.candidate)) => regCall.result = "error"
    /\ regCache.loaded => ~Tainted(regCache.reg)
    /\ (regCall.op = "add" /\ regCall.result = "ok") => ~Tainted(regFile)

\* C13 witness: on a loaded registry, the add of a role that extends the
\* worker and brings a sudo command with a suffix has been refused.
C13_Witness ==
    /\ regCall.op = "add"
    /\ regCall.result = "error"
    /\ ExtraRole \in DOMAIN regCall.candidate
    /\ regCall.candidate[ExtraRole].tools = <<ToolSudoApt>>
    /\ regCall.candidate[ExtraRole].extends = WorkerRole
    /\ ~Tainted(regFile)
    /\ ExtraRole \notin DOMAIN regFile

\* The positions of the role labels in a label list, and the role a label names.
RoleLabels(labels) ==
    {k \in 1 .. Len(labels) :
        Len(labels[k]) >= 1 /\ <<labels[k][1]>> = AGENT_LABEL_PREFIX}

RoleOf(label) == SubSeq(label, 2, Len(label))

\* The roles of the registry that the fetched ticket names in a role label.
RolesNamed ==
    {RoleOf(run.issue.labels[k]) : k \in RoleLabels(run.issue.labels)}
        \cap DOMAIN regCache.reg

\* C14: once dispatch has returned, if the ticket carries a role label whose
\* role is in the registry, the dispatched role is such a role and was
\* matched, not a fallback, whatever else the ticket carries and in whatever
\* order.
C14_ExistingRoleLabelWins ==
    (run.attempts >= 1 /\ RolesNamed # {}) =>
        /\ run.agentType \in RolesNamed
        /\ run.dispatchReason = "matched label"

\* C15: once dispatch has returned, the reason is not empty, and if the
\* ticket carries no role label, or only role labels that name roles which
\* are not in the registry, the dispatched role is the default fallback.
C15_BadLabelFallsBack ==
    run.attempts >= 1 =>
        /\ run.dispatchReason # ""
        /\ RolesNamed = {} => run.agentType = DEFAULT_FALLBACK

\* The transcript has a structured denial: a line that names the denied
\* capability.
StructuredDenials == {l \in 1 .. Len(stdout \o stderr) : (stdout \o stderr)[l].cap # NoCap}

\* C16: when the transcript has a structured denial, the analysis is
\* capability-denied with confidence 0.9 and holds exactly the capabilities
\* the denials name, whatever budget or timeout text is there too; and a
\* budget or timeout analysis comes only from a transcript without any
\* denial text.
C16_DenialHasPriority ==
    analysis # NoAnalysis =>
        /\ StructuredDenials # {} =>
              /\ analysis.category = "permission_denied"
              /\ analysis.confidence = 90
              /\ {analysis.missingCapabilities[k] : k \in 1 .. Len(analysis.missingCapabilities)}
                    = {(stdout \o stderr)[l].cap : l \in StructuredDenials}
        /\ analysis.category \in {"budget_exhausted", "timeout"} =>
              (StructuredDenials = {} /\ ~MatchesGenericDenial(stdout \o stderr))

\* C17: a transcript without a whole-word timeout phrase is not classified
\* as timed out, also when "timeout" occurs inside a longer identifier.
C17_TimeoutNeedsWholeWord ==
    (/\ analysis # NoAnalysis
     /\ ~HasWords(stdout \o stderr, <<"timed", "out">>)
     /\ ~HasWords(stdout \o stderr, <<"sigterm">>)
     /\ ~HasWords(stdout \o stderr, <<"etimedout">>)
     /\ ~HasWords(stdout \o stderr, <<"timeout">>))
        => analysis.category # "timeout"

\* The call is parallel and fn raises for exactly one item.
OneRaises == concurrency > 1 /\ Cardinality(throwsAt) = 1

\* No item is handed out twice: the items in flight are distinct, not yet
\* stored, and among the indices claimed so far.
ClaimedOnce ==
    \A w \in PoolWorkers :
        wstate[w] = "running" =>
            /\ wi[w] \in 1 .. index
            /\ results[wi[w]] = Unset
            /\ \A v \in PoolWorkers : (v # w /\ wstate[v] = "running") => wi[v] # wi[w]

\* What a call in which one item raises leaves behind, at every moment.
OneRaisesSafe ==
    OneRaises =>
        /\ poolStatus # "rejected"
        /\ ClaimedOnce
        /\ poolStatus = "resolved" =>
              /\ DOMAIN results = 1 .. Len(items)
              /\ \A i \in 1 .. Len(items) :
                    results[i] = IF i \in throwsAt THEN Unset ELSE Fn(items[i])

\* C18: a parallel call in which fn raises for exactly one item resolves;
\* every other item is processed once and its result is in its own slot,
\* the raising item's slot is unset.
C18_OneRaiseIsIsolated ==
    /\ []OneRaisesSafe
    /\ OneRaises ~> (poolStatus = "resolved")

\* C18 witness: three items on two workers, the middle one raised, the call
\* has resolved with the outer two in their slots.
C18_Witness ==
    /\ poolStatus = "resolved"
    /\ concurrency = 2
    /\ items = <<1, 2, 3>>
    /\ throwsAt = {2}
    /\ results = <<Fn(1), Unset, Fn(3)>>

\* C19: once the link step is over, the link comment was tried at most
\* twice; if a try succeeded there was no description update; if none
\* succeeded there were two tries and one description update.
C19_LinkRetriesThenFallsBack ==
    (run.pr /\ run.pc # "link") =>
        /\ run.linkComments \in 1 .. 2
        /\ run.linkCommentOk => run.linkUpdates = 0
        /\ ~run.linkCommentOk => (run.linkComments = 2 /\ run.linkUpdates = 1)

\* C20: the agent is never executed more than maxAttempts times, and the
\* attempt count a run returns is neither above maxAttempts nor above the
\* number of agent executions performed.
C20_AttemptsBounded ==
    /\ run.agentExecs <= run.maxAttempts
    /\ (run.pc = "done" /\ run.result.kind = "returned") =>
          /\ run.result.attempts <= run.maxAttempts
          /\ run.result.attempts <= run.agentExecs

\* The elements of a list, as a set.
ToSet(list) == {list[k] : k \in 1 .. Len(list)}

\* C21: the tools resolved for a role with a parent are the union of the
\* parent's and the role's own tools, none of them twice; the tools resolved
\* for a parentless role are the role's own list.
C21_ResolvedIsDedupedUnion ==
    (regCall.op = "spawn" /\ regCall.result = "ok") =>
        LET def == regCall.candidate[regCall.name]
            tools == regCall.effective.tools
        IN  IF def.extends # NoParent
            THEN /\ ToSet(tools) = ToSet(regCall.candidate[def.extends].tools) \cup ToSet(def.tools)
                 /\ Cardinality(ToSet(tools)) = Len(tools)
            ELSE tools = def.tools

\* C21 witness: a child whose own tool is also its parent's, and a child
\* with a tool of its own, have been resolved.
C21_Witness ==
    /\ regCall.op = "spawn"
    /\ regCall.result = "ok"
    /\ regCall.name = ExtraRole
    /\ regCall.candidate[ExtraRole].extends = WorkerRole
    /\ regCall.candidate[ExtraRole].tools = <<ToolRead>>
    /\ regCall.candidate[WorkerRole].tools = <<ToolNpmTest>>
    /\ regCall.effective.tools = <<ToolNpmTest, ToolRead>>

\* C22: the caps an agent is started with are the smaller of the requested
\* cap and the role's configured cap, so never above the role's.
C22_CapsAreCeiling ==
    (regCall.op = "spawn" /\ regCall.result = "ok") =>
        LET def == regCall.candidate[regCall.name]
            eff == regCall.effective
            req == regCall.requested
        IN  /\ eff.maxTurns <= def.maxTurns
            /\ eff.maxTurns <= req.maxTurns
            /\ eff.maxTurns \in {def.maxTurns, req.maxTurns}
            /\ eff.maxBudgetUsd <= def.maxBudgetUsd
            /\ eff.maxBudgetUsd <= req.maxBudgetUsd
            /\ eff.maxBudgetUsd \in {def.maxBudgetUsd, req.maxBudgetUsd}

\* C22 witness: an agent was requested with caps above the role's and is
\* started with the role's.
C22_Witness ==
    /\ regCall.op = "spawn"
    /\ regCall.result = "ok"
    /\ regCall.requested = [maxTurns |-> 80, maxBudgetUsd |-> 9]
    /\ regCall.effective.maxTurns = 50
    /\ regCall.effective.maxBudgetUsd = 5

\* A step of addAgentType: a call that raises leaves the file as it was and
\* the registry a reader gets as it was; a call raises when the name exists
\* or the updated registry fails validation; any other call leaves the new
\* role in the file and in the cache.
AddStep ==
    (regCall'.op = "add" /\ regCall' # regCall) =>
        LET reg == LoadedRegistry(regCache, regFile)
            name == regCall'.name
            def == regCall'.def
        IN  /\ (regCall'.result = "error") =>
                 /\ regFile' = regFile
                 /\ LoadedRegistry(regCache', regFile') = reg
            /\ (regCall'.result = "ok") =>
                 /\ name \in DOMAIN regFile' /\ regFile'[name] = def
                 /\ regCache'.loaded
                 /\ name \in DOMAIN regCache'.reg /\ regCache'.reg[name] = def
            /\ (regCall'.result = "error") <=>
                 \/ name \in DOMAIN reg
                 \/ ~ValidateRegistry([n \in DOMAIN reg \cup {name} |->
                                          IF n = name THEN def ELSE reg[n]])

\* C23: addAgentType raises if the name exists or the registry with the new
\* entry fails validation, and then changes neither the file nor the
\* registry a reader gets; otherwise file and cache hold the new role; and
\* whenever the cache is loaded it equals the file.
C23_AddIsAtomic ==
    /\ [](regCache.loaded => regCache.reg = regFile)
    /\ [][AddStep]_vars

\* C23 witness: a role was added to a registry that was not cached before,
\* and file and cache hold it.
C23_Witness ==
    /\ regCall.op = "add"
    /\ regCall.result = "ok"
    /\ regCall.name = ExtraRole
    /\ regCache.loaded
    /\ ExtraRole \in DOMAIN regFile
    /\ regCache.reg = regFile

\* C24: once a proposal is approved or rejected its status never changes,
\* so a status changes at most once, and no record is ever deleted,
\* whatever the interleaving of create, approve and reject.
C24_StatusChangesOnce ==
    [][\A id \in 1 .. Len(proposals) :
          /\ id <= Len(proposals')
          /\ ~IsPending(proposals[id]) => proposals'[id].status = proposals[id].status]_vars

\* C25: a run has pushed its branch or created a PR only if one of its
\* attempts passed output validation.
C25_PushOnlyWhenValidated ==
    (run.pushed \/ run.pr) => run.validated

\* C26: a step of runIssue in which a tracker write fails (a call was made
\* that did not succeed) never leaves the run raising.
C26_FailedWriteNeverRaises ==
    [][(run'.trackerCalls - run.trackerCalls > tkWrites' - tkWrites) =>
          (run'.pending # Raised /\ run'.result # Raised)]_vars

\* The registry invariant: every extends target is a role of the registry
\* and has no parent itself, and no role resolves to a tool that is one of
\* the forbidden prefixes or starts with one.
WellFormed(reg) ==
    \A name \in DOMAIN reg :
        /\ reg[name].extends # NoParent =>
              /\ reg[name].extends \in DOMAIN reg
              /\ reg[reg[name].extends].extends = NoParent
        /\ LET own == ToSet(reg[name].tools)
               inherited == IF reg[name].extends # NoParent /\ reg[name].extends \in DOMAIN reg
                            THEN ToSet(reg[reg[name].extends].tools) ELSE {}
           IN  \A tool \in own \cup inherited :
                  \A k \in 1 .. Len(FORBIDDEN_PREFIXES) :
                      ~StartsWith(tool, FORBIDDEN_PREFIXES[k])

\* C27: the registry the process holds after any sequence of loads and adds
\* (approval adds through addAgentType) satisfies the registry invariant.
C27_RegistryWellFormed ==
    regCache.loaded => WellFormed(regCache.reg)

\* C27 witness: a registry with a child role was loaded and a further role
\* with a parent was added to it.
C27_Witness ==
    /\ regCache.loaded
    /\ ChildRole \in DOMAIN regCache.reg
    /\ ExtraRole \in DOMAIN regCache.reg
    /\ regCache.reg[ExtraRole].extends = WorkerRole
    /\ regCall.op = "add"
    /\ regCall.result = "ok"

ApproveCannotRegister ==
    /\ lastOp'.op = "approve"
    /\ opCount' = opCount + 1
    /\ lastOp'.id \in 1 .. Len(proposals)
    /\ IsPending(proposals[lastOp'.id])
    /\ LET p == proposals[lastOp'.id]
           reg == LoadedRegistry(regCache, regFile)
       IN  \/ p.proposedAgentType \in DOMAIN reg
           \/ ~WellFormed([n \in DOMAIN reg \cup {p.proposedAgentType} |->
                              IF n = p.proposedAgentType
                              THEN [extends |-> NoParent, tools |-> p.proposedTools]
                              ELSE reg[n]])

\* C29: such a call raises, leaves the proposal pending and every proposal
\* as it was, and leaves the registry (file and what a reader gets) as it was.
C29_FailedApproveChangesNothing ==
    [][ApproveCannotRegister =>
          /\ lastOp'.result = "error"
          /\ proposals' = proposals
          /\ regFile' = regFile
          /\ LoadedRegistry(regCache', regFile') = LoadedRegistry(regCache, regFile)]_vars

\* C29 witness: approving a pending proposal whose tools include a forbidden
\* one raised, and approving one whose role name is taken raised.
C29_Witness ==
    /\ lastOp.op = "approve"
    /\ lastOp.result = "error"
    /\ lastOp.id \in 1 .. Len(proposals)
    /\ IsPending(proposals[lastOp.id])
    /\ \/ \E k \in 1 .. Len(proposals[lastOp.id].proposedTools) :
             IsForbidden(proposals[lastOp.id].proposedTools[k])
       \/ proposals[lastOp.id].proposedAgentType \in DOMAIN regFile

\* The workers whose fn invocation is in progress.
InProgress == {w \in PoolWorkers : wstate[w] = "running"}

\* C30: at most min(N, number of items) invocations of fn are in progress;
\* a call with N <= 1 has no concurrent worker and processes the items one
\* after the other; the indices in progress are distinct, were handed out
\* by the shared counter and have no result yet, and no index beyond the
\* counter has been touched.
C30_BoundedAndClaimedOnce ==
    /\ Cardinality(InProgress) <= Len(items)
    /\ Cardinality(InProgress) <= IF concurrency > 1 THEN concurrency ELSE 0
    /\ concurrency <= 1 =>
          \A i \in 1 .. Len(items) : (results[i] # Unset) <=> (i <= index)
    /\ ClaimedOnce
    /\ \A i \in 1 .. Len(items) : i > index => results[i] = Unset

\* C30 witness: three items, two workers, both busy, one of them with the
\* third item after it finished its first.
C30_Witness ==
    /\ poolStatus = "par"
    /\ Len(items) = 3
    /\ concurrency = 2
    /\ Cardinality(InProgress) = 2
    /\ index = 3
    /\ \E w \in InProgress : wi[w] = 3

\* C31: a runWithConcurrency call never rejects, whatever the concurrency
\* and whichever items make fn raise, and resolves with an array of the
\* input's length.
C31_NeverRejects ==
    /\ poolStatus # "rejected"
    /\ poolStatus = "resolved" => Len(results) = Len(items)

\* C32: a batch never rejects, and when it has returned every ticket has its
\* one result at its input position: the pipeline's result, or a failure
\* result when the pipeline raised; no slot is unset.
C32_EveryTicketHasResult ==
    /\ poolStatus # "rejected"
    /\ \A w \in PoolWorkers : wstate[w] # "dead"
    /\ poolStatus = "resolved" =>
          /\ Len(results) = Len(items)
          /\ \A i \in 1 .. Len(items) :
                results[i] = IF i \in throwsAt THEN CaughtResult(items[i]) ELSE Fn(items[i])

\* C32 witness: a sequential batch of three tickets whose first pipeline
\* raised has returned, the later tickets processed.
C32_Witness ==
    /\ poolStatus = "resolved"
    /\ concurrency = 1
    /\ Len(items) = 3
    /\ throwsAt = {1}
    /\ results[1] = CaughtResult(items[1])
    /\ results[3] = Fn(items[3])

\* C33: releaseLock deletes the lock file only if the releasing batch wrote it.
C33_ReleaseOnlyOwnLock ==
    [][\A p \in Drains :
          (lpc[p] = "rel_unlink" /\ lpc'[p] = "done" /\ lockFile.exists /\ ~lockFile'.exists)
              => lockFile.writer = p]_vars

\* A lock whose writer crashed, older than the TTL, with no other batch
\* around, and invocation p not yet made.
StaleAbandoned(p) ==
    /\ lpc[p] = "idle"
    /\ \A q \in Drains \ {p} : lpc[q] = "crashed"
    /\ lockFile.exists
    /\ now - lockFile.writtenAt >= LOCK_TTL_MS

\* C34: when a crashed batch's lock is older than the TTL, the next
\* acquireLock call returns true.
C34_StaleLockIsTakenOver ==
    \A p \in Drains : StaleAbandoned(p) ~> (lpc[p] = "holding")

\* C34 witness: a batch holds the lock it took over from a crashed batch
\* whose lock had passed the TTL.
C34_Witness ==
    \E p \in Drains :
        /\ lpc[p] = "holding"
        /\ \A q \in Drains \ {p} : lpc[q] = "crashed"
        /\ lockFile.writer = p
        /\ lockFile.writtenAt >= LOCK_TTL_MS

\* C35: an add never removes or changes a role that is in the registry file.
C35_AddKeepsStoredRoles ==
    [][\A name \in DOMAIN regFile :
          name \in DOMAIN regFile' /\ regFile'[name] = regFile[name]]_vars

\* C36: a run of the ticket that fetched it with the role label an approval
\* added dispatches the approved role.
C36_ApprovedRoleDispatched ==
    \A id \in 1 .. Len(proposals) :
        (/\ proposals[id].status = "approved"
         /\ proposals[id].issueIdentifier = RunTicket
         /\ run.pc = "attempt"
         /\ AgentTypeLabel(proposals[id].proposedAgentType) \in ToSet(run.issue.labels))
            => run.agentType = proposals[id].proposedAgentType

\* The analysis holds every capability a structured denial of the transcript
\* names, each once, and suggests the normalized form of each.
CollectsEveryDenial ==
    LET combined == stdout \o stderr
        caps == analysis.missingCapabilities
        tools == analysis.suggestedTools
    IN  /\ ToSet(caps) = {combined[l].cap : l \in StructuredDenials}
        /\ \A i, j \in 1 .. Len(caps) : caps[i] = caps[j] => i = j
        /\ Len(tools) = Len(caps)
        /\ \A k \in 1 .. Len(caps) :
              tools[k] = IF caps[k][1] = "Bash(" \/ caps[k] \in {<<"Read">>, <<"Write">>, <<"Edit">>, <<"Grep">>, <<"Glob">>}
                         THEN caps[k]
                         ELSE <<"Bash(">> \o caps[k] \o <<":*)">>

NoUsableVerdict ==
    \/ run.reviewOutput.kind = "raised"
    \/ run.reviewOutput.kind = "output" /\ ~(run.reviewOutput.hasJson /\ run.reviewOutput.wellFormed)

\* C38: when the review sub-run raised or its output holds no parseable
\* verdict, the ticket is never moved to in-review, the PR never gets the
\* review-approved label, and the run returns success with its PR.
C38_FailedReviewIsNotApproval ==
    NoUsableVerdict =>
        /\ run.verdict # "approved"
        /\ tkState # InReviewState
        /\ ~run.prLabelled
        /\ run.result # NoResult => (run.result = Success(run.attempts) /\ run.pr)

\* A run whose review printed no JSON verdict has returned.
C38_Witness ==
    /\ run.reviewOutput = NoJsonOutput
    /\ run.result = Success(run.attempts)
    /\ run.pr
    /\ run.pipelineSucceeded

\* The status the record of an operation holds once it is written.
WrittenStatus(op) ==
    IF op = "create" THEN "pending" ELSE IF op = "approve" THEN "approved" ELSE "rejected"

\* C39: a createProposal, approveProposal or rejectProposal whose tracker
\* calls fail still returns the proposal, and the record on disk holds what
\* the operation wrote (a new pending record, approved with the role in the
\* registry, or rejected); no record is removed or set back.
C39_TrackerFailureKeepsRecord ==
    [][(opCount' = opCount + 1 /\ lastOp'.tracker = "failed") =>
          /\ lastOp'.result = "ok"
          /\ lastOp'.op \in {"create", "approve", "reject"}
          /\ lastOp'.id \in 1 .. Len(proposals')
          /\ proposals'[lastOp'.id].status = WrittenStatus(lastOp'.op)
          /\ lastOp'.op = "create" => Len(proposals') = Len(proposals) + 1
          /\ lastOp'.op = "approve" =>
                 proposals'[lastOp'.id].proposedAgentType \in DOMAIN regFile'
          /\ \A id \in 1 .. Len(proposals) :
                 id # lastOp'.id => proposals'[id] = proposals[id]
          /\ tkLabels' = tkLabels]_vars

\* An approval whose tracker calls failed: the record is approved and the
\* role registered while the ticket still carries needs-approval.
C39_Witness ==
    /\ lastOp.op = "approve"
    /\ lastOp.tracker = "failed"
    /\ lastOp.result = "ok"
    /\ proposals[lastOp.id].status = "approved"
    /\ NeedsApprovalLabel \in tkLabels[proposals[lastOp.id].issueIdentifier]

\* C40: every name in labelsAdded maps to an id that is in newLabelIds and
\* not in currentLabelIds, and every name in labelsRemoved maps to an id
\* that is in currentLabelIds and not in newLabelIds.
C40_DiffReportsOnlyChanges ==
    labelCall.called =>
        LET out == labelCall.result
        IN  /\ \A k \in 1 .. Len(out.labelsAdded) :
                  /\ out.labelsAdded[k] \in DOMAIN TeamLabelMap
                  /\ HasId(out.newLabelIds, TeamLabelMap[out.labelsAdded[k]])
                  /\ ~HasId(labelCall.currentLabelIds, TeamLabelMap[out.labelsAdded[k]])
            /\ \A k \in 1 .. Len(out.labelsRemoved) :
                  /\ out.labelsRemoved[k] \in DOMAIN TeamLabelMap
                  /\ HasId(labelCall.currentLabelIds, TeamLabelMap[out.labelsRemoved[k]])
                  /\ ~HasId(out.newLabelIds, TeamLabelMap[out.labelsRemoved[k]])

====
